---- MODULE Spec2Model ----
(***************************************************************************)
(* A model of the Home Credit default-risk pipeline:                       *)
(*   src/src/preprocess.py          feature aggregation, schema reconciler *)
(*   src/DataHandling/src/train.py  cross-validation and final refit       *)
(*                                                                         *)
(* Data frames are modelled column-wise.  A cell is a record [k, v]:       *)
(*   k = "nan"            a missing value (NaN)                            *)
(*   k = "inf"            +inf (v = 1) or -inf (v = -1)                    *)
(*   k = "num"            a finite number, v in quarter units (v / 4), so  *)
(*                        that the two levels of median the code takes of  *)
(*                        whole input numbers are exact                    *)
(*   k = "str"            a string, v its index in Categories              *)
(***************************************************************************)
EXTENDS Integers, Sequences, FiniteSets, TLC

VARIABLES
    data,       \* the loaded tables: train, test, bureau, prev_app, installments
    train_fe,   \* the caller's training frame, the argument of preprocess_data
    test_fe,    \* the caller's test frame (preprocess_data writes into it)
    train_df,   \* preprocess_data's local name train_df
    test_df,    \* preprocess_data's local name test_df
    y_train,    \* the separated target column
    train_ids,  \* the saved SK_ID_CURR column of train
    test_ids,   \* the saved SK_ID_CURR column of test
    fills,      \* the fill values of the call, per column with a cell to fill:
                \* loop (lines 264-266), train (line 272), test (line 273)
    cow,        \* TRUE: pandas copy-on-write, a chained inplace call is lost
    pc,         \* the statement the pipeline is at
    err,        \* the exception that ended it, or "none"
    do_cv,      \* run_training's argument do_cv
    n_splits,   \* cross_validate's argument n_splits
    splits,     \* the validation rows of each fold, as kfold.split yields them
    fold,       \* the fold the loop of cross_validate is at
    params,     \* the params dict of cross_validate, shared by its folds
    lgb_calls,  \* the calls of lgb.train made so far, with their arguments
    cv_models,  \* cross_validate's models: the booster of each fold
    cv_scores,  \* cross_validate's cv_scores
    best_iteration, \* run_training's best_iteration
    save_model_flag,    \* run_training's argument save_model_flag
    final_model,        \* run_training's final_model, or None
    feature_importance, \* run_training's feature_importance, or None
    returned,   \* what run_training returned, or None
    files,      \* the files under Config.MODEL_PATH: path |-> content
    writes,     \* the file writes so far: the run that wrote, and the path
    now,        \* the clock, in seconds
    runs,       \* the calls of run_training so far
    y_true,         \* find_optimal_threshold's argument y_true
    y_pred_proba,   \* find_optimal_threshold's argument y_pred_proba
    roc_first,      \* what roc_curve puts before the first threshold
    optimal_idx,    \* find_optimal_threshold's optimal_idx, or None
    optimal_threshold,  \* what find_optimal_threshold returned, or None
    present,    \* the columns each raw ledger table has
    aggregate,  \* what an aggregate_... function returned, or None
    persisted,      \* the schema given to save_json, or None
    schema_json,    \* the text of models/feature_schema.json, or None
    x_train_pkl,    \* the columns of processed/X_train.pkl, or None
    loaded,     \* what load_feature_schema returned, or None
    model_path, \* run_evaluation_pipeline's argument model_path, or None
    save_plots, \* run_evaluation_pipeline's argument save_plots
    processed,  \* the files under Config.PROCESSED_PATH
    registry,   \* the content of models/model_registry.json, or None
    loaded_model,   \* the operation's local name model: what it loaded, or None
    plots,      \* the plot files run_evaluation_pipeline wrote
    submission, \* the submission run_evaluation_pipeline saved, or None
    called,     \* the training function the caller calls
    X_train,    \* the feature matrix the caller passes to it
    params_arg, \* the params dict the caller passes to it, or None
    Config_LGBM_PARAMS, \* the dict Config.LGBM_PARAMS
    params_is,  \* the dict the local name params of the function denotes
    before,     \* what the caller holds at the call: its frames, Config.LGBM_PARAMS
    current_model,      \* app.py's global current_model, or None
    model_metadata,     \* app.py's global model_metadata
    feature_columns,    \* app.py's global feature_columns, or None
    feature_medians,    \* app.py's global feature_medians
    threads,    \* the requests being served: endpoint, request, position, locals
    responses,  \* the responses sent so far
    application,    \* the frame engineer_application_features is called on
    engineered      \* the frame engineer_application_features returned, or None

prep_vars == <<data, train_fe, test_fe, train_df, test_df, train_ids,
               test_ids, fills, cow>>

cv_vars == <<splits, fold, params, cv_models, cv_scores>>

run_vars == <<best_iteration, final_model, feature_importance, returned>>

file_vars == <<files, writes, now, runs>>

training_vars == <<do_cv, n_splits, save_model_flag, lgb_calls, cv_vars, run_vars,
                   file_vars>>

eval_vars == <<y_true, y_pred_proba, roc_first, optimal_idx, optimal_threshold>>

ledger_vars == <<present, aggregate>>

schema_vars == <<persisted, schema_json, x_train_pkl, loaded>>

pipeline_vars == <<model_path, save_plots, processed, registry, loaded_model, plots,
                   submission>>

frame_vars == <<called, X_train, params_arg, Config_LGBM_PARAMS, params_is, before>>

service_vars == <<current_model, model_metadata, feature_columns, feature_medians,
                  threads, responses>>

engineer_vars == <<application, engineered>>

ext_vars == <<pipeline_vars, frame_vars, service_vars, engineer_vars>>

aux_vars == <<eval_vars, ledger_vars, schema_vars, ext_vars>>

vars == <<prep_vars, y_train, pc, err, training_vars, aux_vars>>

---------------------------------------------------------------------------
(* Cells *)

NaN == [k |-> "nan", v |-> 0]
PosInf == [k |-> "inf", v |-> 1]
NegInf == [k |-> "inf", v |-> -1]
Num(n) == [k |-> "num", v |-> 4 * n]
Quarter(q) == [k |-> "num", v |-> q]

\* The strings a categorical column may hold, in code-point order.
Categories == <<"A", "B", "nan">>
Str(s) == [k |-> "str", v |-> CHOOSE i \in 1..Len(Categories) : Categories[i] = s]

IsNull(x) == x.k = "nan"
IsInf(x) == x.k = "inf"
IsFinite(x) == x.k = "num"

Range(s) == {s[i] : i \in 1..Len(s)}
MapSeq(s, F(_)) == [i \in 1..Len(s) |-> F(s[i])]
Count(s, P(_)) == Cardinality({i \in 1..Len(s) : P(s[i])})

\* The order of floats: -inf < finite < +inf (NaN is never compared).
Lt(a, b) ==
    IF a.k = "num" /\ b.k = "num" THEN a.v < b.v
    ELSE IF a.k = "inf" /\ b.k = "inf" THEN a.v < b.v
    ELSE IF a.k = "inf" THEN a.v < 0
    ELSE b.v > 0

Le(a, b) == a = b \/ Lt(a, b)

\* (a + b) / 2 in floating point.
Mean2(a, b) ==
    IF a.k = "num" /\ b.k = "num" THEN Quarter((a.v + b.v) \div 2)
    ELSE IF a.k = "inf" /\ b.k = "inf" THEN (IF a.v = b.v THEN a ELSE NaN)
    ELSE IF a.k = "inf" THEN a
    ELSE b

---------------------------------------------------------------------------
(* Frames: [cols, n, data], data[c] the column c as a sequence of n cells *)

NoFrame == [cols |-> <<>>, n |-> 0, data |-> <<>>]
NoColumn == <<>>

ColSet(df) == Range(df.cols)
HasCol(df, c) == c \in ColSet(df)

Frame(cols, n, F(_)) ==
    [cols |-> cols, n |-> n, data |-> [c \in Range(cols) |-> F(c)]]

\* df.drop(columns=cs): the columns must exist (the caller checks).
DropColumns(df, cs) ==
    Frame(SelectSeq(df.cols, LAMBDA c : c \notin cs), df.n, LAMBDA c : df.data[c])

\* df[c] = vals: replaces the column, or appends a new one.
SetColumn(df, c, vals) ==
    Frame(IF HasCol(df, c) THEN df.cols ELSE Append(df.cols, c), df.n,
          LAMBDA d : IF d = c THEN vals ELSE df.data[d])

\* df.reindex(columns=cols) for columns that exist.
Reindex(df, cols) == Frame(cols, df.n, LAMBDA c : df.data[c])

---------------------------------------------------------------------------
(* Series.median(): NaN skipped, infinities are values *)

NonNull(s) == SelectSeq(s, LAMBDA x : ~IsNull(x))

\* The k-th smallest cell of s (1 <= k <= Len(s)), no cell of s NaN.
KthSmallest(s, k) ==
    CHOOSE x \in Range(s) :
        /\ Count(s, LAMBDA y : Lt(y, x)) < k
        /\ k <= Count(s, LAMBDA y : Le(y, x))

Median(s) ==
    LET t == NonNull(s)
        m == Len(t)
    IN  IF m = 0 THEN NaN
        ELSE IF m % 2 = 1 THEN KthSmallest(t, (m + 1) \div 2)
        ELSE Mean2(KthSmallest(t, m \div 2), KthSmallest(t, m \div 2 + 1))

\* Series.fillna(value): a NaN fill value fills nothing.
FillNa(s, value) == MapSeq(s, LAMBDA x : IF IsNull(x) THEN value ELSE x)

\* Series.replace([inf, -inf], nan)
ReplaceInf(s) == MapSeq(s, LAMBDA x : IF IsInf(x) THEN NaN ELSE x)

---------------------------------------------------------------------------
(* preprocess_data, statement by statement *)

TARGET == "TARGET"
SK_ID_CURR == "SK_ID_CURR"

\* Config.MISSING_THRESHOLD * 100, the percentage a column's missing share
\* is compared with.
MISSING_THRESHOLD_PCT == 70

\* select_dtypes(include=['object', 'category']): a column read with strings.
IsObject(s) == \E i \in 1..Len(s) : s[i].k = "str"

categorical_cols(df) == SelectSeq(df.cols, LAMBDA c : IsObject(df.data[c]))

\* astype(str): a string is itself, NaN becomes the string 'nan'.
AsStr(x) ==
    CASE x.k = "str" -> x.v
      [] x.k = "nan" -> Str("nan").v

\* LabelEncoder.fit_transform(y): classes_ are the sorted distinct strings,
\* a value's code is its 0-based position among them.
LabelEncode(y) ==
    LET classes == Range(y)
    IN  MapSeq(y, LAMBDA s : Num(Cardinality({t \in classes : t < s})))

\* The fault of one encoder per frame: each frame's codes are fitted on its
\* own values.
EncodeSeparately(tr, te, col) ==
    [train |-> SetColumn(tr, col, LabelEncode(MapSeq(tr.data[col], AsStr))),
     test  |-> SetColumn(te, col, LabelEncode(MapSeq(te.data[col], AsStr))),
     err   |-> "none"]

\* Lines 237-241 for one column.
EncodeColumn(tr, te, col) ==
    LET combined == MapSeq(tr.data[col] \o te.data[col], AsStr)
        combined_encoded == LabelEncode(combined)
    IN  [train |-> SetColumn(tr, col, SubSeq(combined_encoded, 1, tr.n)),
         test  |-> SetColumn(te, col, SubSeq(combined_encoded, tr.n + 1, tr.n + te.n)),
         err   |-> "none"]

\* The loop of lines 236-241: test_df[col] raises KeyError for a column the
\* test frame lacks, after the columns before it were encoded.
RECURSIVE EncodeLoop(_, _, _)
EncodeLoop(tr, te, cols) ==
    IF cols = <<>> THEN [train |-> tr, test |-> te, err |-> "none"]
    ELSE IF ~HasCol(te, Head(cols))
         THEN [train |-> tr, test |-> te, err |-> "KeyError"]
         ELSE LET r == EncodeColumn(tr, te, Head(cols))
              IN  EncodeLoop(r.train, r.test, Tail(cols))

\* The fault of an alignment that keeps each frame's own column order.
AlignKeepOrder(tr, te) ==
    [train |-> Reindex(tr, SelectSeq(tr.cols, LAMBDA c : HasCol(te, c))),
     test  |-> Reindex(te, SelectSeq(te.cols, LAMBDA c : HasCol(tr, c)))]

\* train_df.align(test_df, join='inner', axis=1): the columns of both, in
\* the order of the left frame, for both frames.
AlignInner(tr, te) ==
    LET join_columns == SelectSeq(tr.cols, LAMBDA c : HasCol(te, c))
    IN  [train |-> Reindex(tr, join_columns), test |-> Reindex(te, join_columns)]

\* The fault of a threshold that also drops a column exactly at it.
IsHighMissingAtLeast(s) ==
    Count(s, IsNull) * 100 >= MISSING_THRESHOLD_PCT * Len(s)

\* Lines 253-254: missing_pct > MISSING_THRESHOLD * 100, on the training
\* frame; 0 rows give NaN, which is not greater.
IsHighMissing(s) ==
    Count(s, IsNull) * 100 > MISSING_THRESHOLD_PCT * Len(s)

high_missing_cols(tr, te) ==
    SelectSeq(tr.cols, LAMBDA c : IsHighMissing(tr.data[c]))

\* Lines 262-266: the chained fillna(inplace=True) reaches the frame only
\* without copy-on-write.
ImputeValues(tr) ==
    [c \in {d \in ColSet(tr) : Count(tr.data[d], IsNull) > 0} |-> Median(tr.data[c])]

ImputeLoop(tr, te, cw) ==
    LET fill_value == ImputeValues(tr)
        Fill(df) ==
            Frame(df.cols, df.n,
                  LAMBDA c : IF c \in DOMAIN fill_value /\ ~cw
                             THEN FillNa(df.data[c], fill_value[c])
                             ELSE df.data[c])
    IN  [train |-> Fill(tr), test |-> Fill(te), fill |-> fill_value]

\* DataFrame.median() and DataFrame.fillna(Series)
FrameMedian(df) == [c \in ColSet(df) |-> Median(df.data[c])]

FrameFillNa(df, med) ==
    Frame(df.cols, df.n,
          LAMBDA c : IF c \in DOMAIN med THEN FillNa(df.data[c], med[c])
                     ELSE df.data[c])

FrameReplaceInf(df) == Frame(df.cols, df.n, LAMBDA c : ReplaceInf(df.data[c]))

\* The fault of filling the test frame with its own medians.
TestOwnMedian(tr, te) == FrameMedian(te)

\* Line 273: the medians the test frame is filled with.
TestFillMedian(tr, te) == FrameMedian(tr)

\* Lines 269-273.
ReplaceInfinites(tr, te) ==
    LET tr1 == FrameReplaceInf(tr)
        te1 == FrameReplaceInf(te)
        tr2 == FrameFillNa(tr1, FrameMedian(tr1))
        Used(df, med) ==
            [c \in {d \in ColSet(df) \cap DOMAIN med : Count(df.data[d], IsNull) > 0} |->
                med[c]]
    IN  [train |-> tr2,
         test  |-> FrameFillNa(te1, TestFillMedian(tr2, te1)),
         train_fill |-> Used(tr1, FrameMedian(tr1)),
         test_fill  |-> Used(te1, TestFillMedian(tr2, te1))]

---------------------------------------------------------------------------
(* The statements of preprocess_data, each a function of the call's state   *)
(* st = [train_fe, test_fe, train_df, test_df, y_train, train_ids,          *)
(*       test_ids, fills, pc, err]                                          *)

Raised(st, e) == [st EXCEPT !.pc = "raised", !.err = e]

\* The fault of a target taken only if present: the call goes on without.
separate_target_unchecked(st) ==
    [st EXCEPT !.y_train = IF HasCol(st.train_fe, TARGET)
                           THEN st.train_fe.data[TARGET] ELSE NoColumn,
               !.train_df = DropColumns(st.train_fe, {TARGET}),
               !.test_df = st.test_fe,
               !.pc = "save_ids"]

\* Lines 221-223: y_train = train_df[target] raises KeyError when the
\* training frame has no target column.
separate_target(st) ==
    IF ~HasCol(st.train_fe, TARGET) THEN Raised(st, "KeyError")
    ELSE [st EXCEPT !.y_train = st.train_fe.data[TARGET],
                    !.train_df = DropColumns(st.train_fe, {TARGET}),
                    !.test_df = st.test_fe,
                    !.pc = "save_ids"]

\* Lines 225-227.
save_ids(st) ==
    IF ~HasCol(st.train_df, SK_ID_CURR) \/ ~HasCol(st.test_df, SK_ID_CURR)
    THEN Raised(st, "KeyError")
    ELSE [st EXCEPT !.train_ids = st.train_df.data[SK_ID_CURR],
                    !.test_ids = st.test_df.data[SK_ID_CURR],
                    !.pc = "encode"]

\* Lines 229-241: test_df is still the caller's frame, which the
\* assignments write into.
encode_categoricals(st) ==
    LET r == EncodeLoop(st.train_df, st.test_df, categorical_cols(st.train_df))
        done == [st EXCEPT !.train_df = r.train, !.test_df = r.test,
                           !.test_fe = r.test, !.pc = "drop_id"]
    IN  IF r.err = "none" THEN done ELSE Raised(done, r.err)

\* The fault of ids left among the features.
drop_id_skipped(st) == [st EXCEPT !.pc = "align"]

\* Lines 243-245.
drop_id(st) ==
    [st EXCEPT !.train_df = DropColumns(st.train_df, {SK_ID_CURR}),
               !.test_df = DropColumns(st.test_df, {SK_ID_CURR}),
               !.pc = "align"]

\* Lines 247-248.
align_columns(st) ==
    LET r == AlignInner(st.train_df, st.test_df)
    IN  [st EXCEPT !.train_df = r.train, !.test_df = r.test, !.pc = "drop_missing"]

\* Lines 252-259: drop(columns=...) raises KeyError for a column the frame
\* does not have.
drop_high_missing(st) ==
    LET cols == Range(high_missing_cols(st.train_df, st.test_df))
    IN  IF cols \subseteq ColSet(st.train_df) /\ cols \subseteq ColSet(st.test_df)
        THEN [st EXCEPT !.train_df = DropColumns(st.train_df, cols),
                        !.test_df = DropColumns(st.test_df, cols),
                        !.pc = "impute"]
        ELSE Raised(st, "KeyError")

\* Lines 261-266.
impute(st, cw) ==
    LET r == ImputeLoop(st.train_df, st.test_df, cw)
    IN  [st EXCEPT !.train_df = r.train, !.test_df = r.test,
                   !.fills = [st.fills EXCEPT !.loop = r.fill],
                   !.pc = "replace_inf"]

\* Lines 268-279.
replace_infinites(st) ==
    LET r == ReplaceInfinites(st.train_df, st.test_df)
    IN  [st EXCEPT !.train_df = r.train, !.test_df = r.test,
                   !.fills = [st.fills EXCEPT !.train = r.train_fill,
                                              !.test = r.test_fill],
                   !.pc = "returned"]

\* The statement at st.pc.
Statement(st, cw) ==
    CASE st.pc = "separate_target" -> separate_target(st)
      [] st.pc = "save_ids" -> save_ids(st)
      [] st.pc = "encode" -> encode_categoricals(st)
      [] st.pc = "drop_id" -> drop_id(st)
      [] st.pc = "align" -> align_columns(st)
      [] st.pc = "drop_missing" -> drop_high_missing(st)
      [] st.pc = "impute" -> impute(st, cw)
      [] st.pc = "replace_inf" -> replace_infinites(st)

NoFills == [loop |-> <<>>, train |-> <<>>, test |-> <<>>]

\* The state of a call preprocess_data(train, test) at its first statement.
Call(train, test) ==
    [train_fe |-> train, test_fe |-> test, train_df |-> NoFrame,
     test_df |-> NoFrame, y_train |-> NoColumn, train_ids |-> NoColumn,
     test_ids |-> NoColumn, fills |-> NoFills, pc |-> "separate_target",
     err |-> "none"]

\* The call run to its return or its exception.
RECURSIVE RunFrom(_, _)
RunFrom(st, cw) ==
    IF st.pc \in {"returned", "raised"} THEN st ELSE RunFrom(Statement(st, cw), cw)

preprocess_data(train, test, cw) == RunFrom(Call(train, test), cw)

---------------------------------------------------------------------------
(* The steps of the model: one statement of the running call *)

Locals ==
    [train_fe |-> train_fe, test_fe |-> test_fe, train_df |-> train_df,
     test_df |-> test_df, y_train |-> y_train, train_ids |-> train_ids,
     test_ids |-> test_ids, fills |-> fills, pc |-> pc, err |-> err]

Install(st) ==
    /\ train_fe' = st.train_fe
    /\ test_fe' = st.test_fe
    /\ train_df' = st.train_df
    /\ test_df' = st.test_df
    /\ y_train' = st.y_train
    /\ train_ids' = st.train_ids
    /\ test_ids' = st.test_ids
    /\ fills' = st.fills
    /\ pc' = st.pc
    /\ err' = st.err
    /\ UNCHANGED <<data, cow, training_vars, aux_vars>>

SeparateTarget == pc = "separate_target" /\ Install(separate_target(Locals))
SaveIds == pc = "save_ids" /\ Install(save_ids(Locals))
EncodeCategoricals == pc = "encode" /\ Install(encode_categoricals(Locals))
DropId == pc = "drop_id" /\ Install(drop_id(Locals))
AlignColumns == pc = "align" /\ Install(align_columns(Locals))
DropHighMissing == pc = "drop_missing" /\ Install(drop_high_missing(Locals))
Impute == pc = "impute" /\ Install(impute(Locals, cow))
ReplaceInfinitesStep == pc = "replace_inf" /\ Install(replace_infinites(Locals))

PreprocessStep ==
    \/ SeparateTarget
    \/ SaveIds
    \/ EncodeCategoricals
    \/ DropId
    \/ AlignColumns
    \/ DropHighMissing
    \/ Impute
    \/ ReplaceInfinitesStep

---------------------------------------------------------------------------
(* Ledger aggregation and the merges of run_preprocessing.  A ledger is a   *)
(* sequence of rows (records); of the aggregated columns the model keeps    *)
(* the count, one sum, the status-filtered ones and one ratio.              *)

SeqSum(s) == LET RECURSIVE Go(_)
                 Go(i) == IF i = 0 THEN 0 ELSE s[i] + Go(i - 1)
             IN  Go(Len(s))

\* The distinct keys of a groupby, sorted ascending.
RECURSIVE SortedKeys(_)
SortedKeys(S) ==
    IF S = {} THEN <<>>
    ELSE LET m == CHOOSE x \in S : \A y \in S : x <= y
         IN  <<m>> \o SortedKeys(S \ {m})

GroupKeys(rows) == SortedKeys({rows[i].SK_ID_CURR : i \in 1..Len(rows)})
Group(rows, id) == SelectSeq(rows, LAMBDA r : r.SK_ID_CURR = id)

\* groupby(...).agg: 'count' of a column without missing cells, 'sum' and
\* 'max' skipping NaN; an empty sum is 0, an empty max is NaN.
AggCount(rows) == Num(Len(rows))
AggSum(cells) ==
    Quarter(SeqSum([i \in 1..Len(NonNull(cells)) |-> NonNull(cells)[i].v]))
AggMax(cells) ==
    LET t == NonNull(cells)
    IN  IF t = <<>> THEN NaN ELSE KthSmallest(t, Len(t))

\* a / b on float columns.
Divide(a, b) ==
    IF IsNull(a) \/ IsNull(b) THEN NaN
    ELSE IF b.v = 0 THEN (IF a.v = 0 THEN NaN ELSE IF a.v > 0 THEN PosInf ELSE NegInf)
    ELSE Quarter((4 * a.v) \div b.v)

\* A frame of one row per key, its columns computed from the key's group.
AggFrame(keys, names, Cell(_, _)) ==
    Frame(<<SK_ID_CURR>> \o names, Len(keys),
          LAMBDA c : [i \in 1..Len(keys) |->
                        IF c = SK_ID_CURR THEN Num(keys[i]) ELSE Cell(c, keys[i])])

\* The raw columns each aggregation reads: lines 89-91; 97-128; 143-167;
\* 186-202 (PAYMENT_DIFF, PAYMENT_RATIO and DAYS_PAYMENT_DELAY are derived).
bureau_balance_columns == {"SK_ID_BUREAU", "MONTHS_BALANCE", "STATUS"}

bureau_columns ==
    {"SK_ID_BUREAU", "SK_ID_CURR", "DAYS_CREDIT", "CREDIT_DAY_OVERDUE",
     "DAYS_CREDIT_ENDDATE", "AMT_CREDIT_MAX_OVERDUE", "CNT_CREDIT_PROLONG",
     "AMT_CREDIT_SUM", "AMT_CREDIT_SUM_DEBT", "AMT_CREDIT_SUM_OVERDUE",
     "DAYS_CREDIT_UPDATE", "AMT_ANNUITY", "CREDIT_ACTIVE"}

prev_columns ==
    {"SK_ID_CURR", "SK_ID_PREV", "AMT_ANNUITY", "AMT_APPLICATION", "AMT_CREDIT",
     "AMT_DOWN_PAYMENT", "AMT_GOODS_PRICE", "HOUR_APPR_PROCESS_START",
     "RATE_DOWN_PAYMENT", "DAYS_DECISION", "CNT_PAYMENT", "NAME_CONTRACT_STATUS"}

inst_columns ==
    {"SK_ID_CURR", "SK_ID_PREV", "AMT_PAYMENT", "AMT_INSTALMENT",
     "DAYS_ENTRY_PAYMENT", "DAYS_INSTALMENT", "NUM_INSTALMENT_NUMBER",
     "NUM_INSTALMENT_VERSION"}

\* The tables as the raw files have them.
RawColumns ==
    [bureau |-> bureau_columns, bureau_balance |-> bureau_balance_columns,
     prev_app |-> prev_columns, installments |-> inst_columns]

\* The fault of an aggregation that leaves out what it does not find.
KeyErrorSkipped(required, columns) == FALSE

\* df[c], groupby(c) and agg({c: ...}) raise KeyError for a column c the
\* table does not have.
KeyError(required, columns) == ~(required \subseteq columns)

\* The aggregation of each table raises on a column it reads and the table
\* lacks.
BureauKeyError(cols) ==
    \/ KeyError(bureau_balance_columns, cols.bureau_balance)
    \/ KeyError(bureau_columns, cols.bureau)
PrevKeyError(cols) == KeyError(prev_columns, cols.prev_app)
InstKeyError(cols) == KeyError(inst_columns, cols.installments)

\* The fault of a status count that is 0 where there is no row.
aggregate_bureau_features_zero(df_bureau) ==
    LET Of(id, status) ==
            SelectSeq(Group(df_bureau, id), LAMBDA r : r.CREDIT_ACTIVE = status)
        Debt(rows) == [i \in 1..Len(rows) |-> rows[i].AMT_CREDIT_SUM_DEBT]
        Cell(c, id) ==
            CASE c = "BUREAU_SK_ID_BUREAU_COUNT" -> AggCount(Group(df_bureau, id))
              [] c = "BUREAU_AMT_CREDIT_SUM_DEBT_SUM" -> AggSum(Debt(Group(df_bureau, id)))
              [] c = "BUREAU_ACTIVE_COUNT" -> AggCount(Of(id, "Active"))
              [] c = "BUREAU_ACTIVE_DEBT" -> AggSum(Debt(Of(id, "Active")))
              [] c = "BUREAU_CLOSED_COUNT" -> AggCount(Of(id, "Closed"))
    IN  AggFrame(GroupKeys(df_bureau),
                 <<"BUREAU_SK_ID_BUREAU_COUNT", "BUREAU_AMT_CREDIT_SUM_DEBT_SUM",
                   "BUREAU_ACTIVE_COUNT", "BUREAU_ACTIVE_DEBT", "BUREAU_CLOSED_COUNT">>,
                 Cell)

\* Lines 99-133: a status-filtered aggregate is left-joined on the index, so
\* an applicant without a row of that status has NaN in its columns.
aggregate_bureau_features(df_bureau) ==
    LET Of(id, status) ==
            SelectSeq(Group(df_bureau, id), LAMBDA r : r.CREDIT_ACTIVE = status)
        Debt(rows) == [i \in 1..Len(rows) |-> rows[i].AMT_CREDIT_SUM_DEBT]
        Cell(c, id) ==
            CASE c = "BUREAU_SK_ID_BUREAU_COUNT" -> AggCount(Group(df_bureau, id))
              [] c = "BUREAU_AMT_CREDIT_SUM_DEBT_SUM" -> AggSum(Debt(Group(df_bureau, id)))
              [] c = "BUREAU_ACTIVE_COUNT" ->
                    IF Of(id, "Active") = <<>> THEN NaN ELSE AggCount(Of(id, "Active"))
              [] c = "BUREAU_ACTIVE_DEBT" ->
                    IF Of(id, "Active") = <<>> THEN NaN ELSE AggSum(Debt(Of(id, "Active")))
              [] c = "BUREAU_CLOSED_COUNT" ->
                    IF Of(id, "Closed") = <<>> THEN NaN ELSE AggCount(Of(id, "Closed"))
    IN  AggFrame(GroupKeys(df_bureau),
                 <<"BUREAU_SK_ID_BUREAU_COUNT", "BUREAU_AMT_CREDIT_SUM_DEBT_SUM",
                   "BUREAU_ACTIVE_COUNT", "BUREAU_ACTIVE_DEBT", "BUREAU_CLOSED_COUNT">>,
                 Cell)

\* Lines 143-175.
aggregate_previous_applications(df_prev) ==
    LET Of(id, status) ==
            SelectSeq(Group(df_prev, id), LAMBDA r : r.NAME_CONTRACT_STATUS = status)
        Cell(c, id) ==
            CASE c = "PREV_SK_ID_PREV_COUNT" -> AggCount(Group(df_prev, id))
              [] c = "PREV_APPROVED_COUNT" ->
                    IF Of(id, "Approved") = <<>> THEN NaN ELSE AggCount(Of(id, "Approved"))
              [] c = "PREV_REFUSED_COUNT" ->
                    IF Of(id, "Refused") = <<>> THEN NaN ELSE AggCount(Of(id, "Refused"))
    IN  AggFrame(GroupKeys(df_prev),
                 <<"PREV_SK_ID_PREV_COUNT", "PREV_APPROVED_COUNT", "PREV_REFUSED_COUNT">>,
                 Cell)

\* Lines 185-205: PAYMENT_RATIO = AMT_PAYMENT / AMT_INSTALMENT per row.
aggregate_installments(df_inst) ==
    LET Ratio(rows) ==
            [i \in 1..Len(rows) |-> Divide(rows[i].AMT_PAYMENT, rows[i].AMT_INSTALMENT)]
        Cell(c, id) ==
            CASE c = "INST_SK_ID_PREV_COUNT" -> AggCount(Group(df_inst, id))
              [] c = "INST_PAYMENT_RATIO_MAX" -> AggMax(Ratio(Group(df_inst, id)))
    IN  AggFrame(GroupKeys(df_inst),
                 <<"INST_SK_ID_PREV_COUNT", "INST_PAYMENT_RATIO_MAX">>, Cell)

\* left.merge(right, on='SK_ID_CURR', how='left'): every left row, in order,
\* once per right row of its key, or once with NaN when there is none.
RECURSIVE MergePairs(_, _, _)
MergePairs(left, right, i) ==
    IF i > left.n THEN <<>>
    ELSE LET hits == SelectSeq([j \in 1..right.n |-> j],
                        LAMBDA j : right.data[SK_ID_CURR][j] = left.data[SK_ID_CURR][i])
         IN  (IF hits = <<>> THEN <<[l |-> i, r |-> 0]>>
              ELSE [k \in 1..Len(hits) |-> [l |-> i, r |-> hits[k]]])
             \o MergePairs(left, right, i + 1)

\* The fault of a merge that gives an unmatched row 0 in the new columns.
MergeOnZero(left, right, pairs) ==
    Frame(left.cols \o SelectSeq(right.cols, LAMBDA c : c # SK_ID_CURR), Len(pairs),
          LAMBDA c : [k \in 1..Len(pairs) |->
                        IF HasCol(left, c) THEN left.data[c][pairs[k].l]
                        ELSE IF pairs[k].r = 0 THEN Num(0)
                        ELSE right.data[c][pairs[k].r]])

MergeOn(left, right, pairs) ==
    Frame(left.cols \o SelectSeq(right.cols, LAMBDA c : c # SK_ID_CURR), Len(pairs),
          LAMBDA c : [k \in 1..Len(pairs) |->
                        IF HasCol(left, c) THEN left.data[c][pairs[k].l]
                        ELSE IF pairs[k].r = 0 THEN NaN
                        ELSE right.data[c][pairs[k].r]])

\* The fault of how='inner': a left row without a match is dropped.
InnerMerge(left, right) ==
    MergeOn(left, right, SelectSeq(MergePairs(left, right, 1), LAMBDA p : p.r # 0))

LeftMerge(left, right) == MergeOn(left, right, MergePairs(left, right, 1))

---------------------------------------------------------------------------
(* The frames preprocess_data is called with *)

\* Rows of the training frame, rows of the test frame, and the rows of the
\* training frames in which a missing share of exactly 0.7 occurs.
MaxRows == 3
TestRows == 2
ThresholdRows == 10

FeatureNames == {"A", "B", "C"}

\* A numeric column of n cells: k NaN, p +inf, q -inf, then 1, 2, 3, ...
ColumnOf(k, p, q, n) ==
    [i \in 1..n |-> IF i <= k THEN NaN
                    ELSE IF i <= k + p THEN PosInf
                    ELSE IF i <= k + p + q THEN NegInf
                    ELSE Num(i - (k + p + q))]

NumericColumns(n) ==
    {ColumnOf(t[1], t[2], t[3], n) :
        t \in {u \in (0..n) \X (0..n) \X (0..n) : u[1] + u[2] + u[3] <= n}}

MissingColumns(n) == {ColumnOf(k, 0, 0, n) : k \in 0..n}

\* The cells of a categorical column as read from a file.
CatCells == {Str("A"), Str("B"), Str("nan"), NaN}
CatColumns(n) == [1..n -> CatCells]

IdColumn(n, base) == [i \in 1..n |-> Num(base + i)]
TargetColumn(n) == [i \in 1..n |-> Num(i % 2)]

\* A frame of the columns cols, its features taken from feat.
BuildFrame(cols, n, base, feat) ==
    Frame(cols, n, LAMBDA c : IF c = SK_ID_CURR THEN IdColumn(n, base)
                              ELSE IF c = TARGET THEN TargetColumn(n)
                              ELSE feat[c])

Pair(tr, te) == [train |-> tr, test |-> te]

\* One numeric feature, every mix of NaN and infinities in both frames.
NumericInputs ==
    UNION {{Pair(BuildFrame(<<SK_ID_CURR, TARGET, "A">>, n, 0, [c \in {"A"} |-> a]),
                 BuildFrame(<<SK_ID_CURR, "A">>, TestRows, 100, [c \in {"A"} |-> b])) :
               a \in NumericColumns(n), b \in NumericColumns(TestRows)} :
           n \in 1..MaxRows}

\* One numeric feature with every missing share of ThresholdRows rows.
ThresholdInputs ==
    {Pair(BuildFrame(<<SK_ID_CURR, TARGET, "A">>, ThresholdRows, 0, [c \in {"A"} |-> a]),
          BuildFrame(<<SK_ID_CURR, "A">>, TestRows, 100, [c \in {"A"} |-> b])) :
        a \in MissingColumns(ThresholdRows), b \in MissingColumns(TestRows)}

\* One categorical feature, every mix of strings and NaN in both frames.
CategoricalInputs ==
    {Pair(BuildFrame(<<SK_ID_CURR, TARGET, "C">>, TestRows, 0, [c \in {"C"} |-> a]),
          BuildFrame(<<SK_ID_CURR, "C">>, TestRows, 100, [c \in {"C"} |-> b])) :
        a \in {s \in CatColumns(TestRows) : IsObject(s)}, b \in CatColumns(TestRows)}

\* Every choice and order of feature columns, with and without the target
\* and id columns; A has a missing cell, B is all missing in training.
Layouts ==
    {s \in UNION {[1..k -> FeatureNames] : k \in 0..Cardinality(FeatureNames)} :
        \A i, j \in 1..Len(s) : s[i] = s[j] => i = j}

TrainFeatures ==
    [c \in FeatureNames |->
        CASE c = "A" -> ColumnOf(1, 0, 0, MaxRows)
          [] c = "B" -> ColumnOf(MaxRows, 0, 0, MaxRows)
          [] c = "C" -> [i \in 1..MaxRows |-> IF i % 2 = 1 THEN Str("B") ELSE Str("A")]]

TestFeatures ==
    [c \in FeatureNames |->
        CASE c = "A" -> ColumnOf(1, 0, 0, TestRows)
          [] c = "B" -> ColumnOf(0, 0, 0, TestRows)
          [] c = "C" -> [i \in 1..TestRows |-> IF i % 2 = 1 THEN Str("nan") ELSE Str("B")]]

LayoutInputs ==
    {Pair(BuildFrame(h \o s, MaxRows, 0, TrainFeatures),
          BuildFrame(g \o t, TestRows, 100, TestFeatures)) :
        h \in {<<SK_ID_CURR, TARGET>>, <<TARGET, SK_ID_CURR>>, <<SK_ID_CURR>>, <<TARGET>>},
        g \in {<<SK_ID_CURR>>, <<SK_ID_CURR, TARGET>>, <<>>},
        s \in Layouts, t \in Layouts}

PreprocessInputs ==
    NumericInputs \cup ThresholdInputs \cup CategoricalInputs \cup LayoutInputs

NoTable == <<>>

\* Python's None and an int, for best_iteration.
None == [k |-> "none", v |-> 0]
Some(n) == [k |-> "int", v |-> n]

\* No file has been written under Config.MODEL_PATH.
NoFiles == <<>>

\* The keys of Config.LGBM_PARAMS the model follows: scale_pos_weight is
\* not one of its keys.
LGBM_PARAMS == <<>>

\* find_optimal_threshold has not been called.
EvalIdle ==
    /\ y_true = <<>>
    /\ y_pred_proba = <<>>
    /\ roc_first = "inf"
    /\ optimal_idx = None
    /\ optimal_threshold = None

\* Every raw table has the columns the aggregations read; no aggregation
\* was called on its own.
LedgerIdle ==
    /\ present = RawColumns
    /\ aggregate = None

\* No schema was persisted or loaded.
SchemaIdle ==
    /\ persisted = None
    /\ schema_json = None
    /\ x_train_pkl = None
    /\ loaded = None

\* Neither run_evaluation_pipeline nor load_production_model was called.
PipelineIdle ==
    /\ model_path = None
    /\ save_plots = FALSE
    /\ processed = {}
    /\ registry = None
    /\ loaded_model = None
    /\ plots = {}
    /\ submission = None

\* No training function was called on a matrix of the caller.
FrameIdle ==
    /\ called = "none"
    /\ X_train = <<>>
    /\ params_arg = None
    /\ Config_LGBM_PARAMS = LGBM_PARAMS
    /\ params_is = "none"
    /\ before = None

\* The Flask service was not started.
ServiceIdle ==
    /\ current_model = None
    /\ model_metadata = [k |-> "empty", v |-> 0]
    /\ feature_columns = None
    /\ feature_medians = <<>>
    /\ threads = <<>>
    /\ responses = <<>>

\* engineer_application_features was not called.
EngineerIdle ==
    /\ application = <<>>
    /\ engineered = None

ExtIdle == PipelineIdle /\ FrameIdle /\ ServiceIdle /\ EngineerIdle

AuxIdle == EvalIdle /\ LedgerIdle /\ SchemaIdle /\ ExtIdle

\* run_training has not been called.
TrainingIdle ==
    /\ do_cv = FALSE
    /\ n_splits = 0
    /\ splits = <<>>
    /\ fold = 0
    /\ params = LGBM_PARAMS
    /\ lgb_calls = <<>>
    /\ cv_models = <<>>
    /\ cv_scores = <<>>
    /\ best_iteration = None
    /\ save_model_flag = FALSE
    /\ final_model = None
    /\ feature_importance = None
    /\ returned = None
    /\ files = NoFiles
    /\ writes = <<>>
    /\ now = 0
    /\ runs = 0

\* preprocess_data called on a pair of frames.
Init ==
    /\ \E inp \in PreprocessInputs :
        /\ data = [train |-> inp.train, test |-> inp.test,
                   bureau |-> NoTable, prev_app |-> NoTable, installments |-> NoTable]
        /\ train_fe = inp.train
        /\ test_fe = inp.test
    /\ cow \in BOOLEAN
    /\ train_df = NoFrame
    /\ test_df = NoFrame
    /\ y_train = NoColumn
    /\ train_ids = NoColumn
    /\ test_ids = NoColumn
    /\ fills = NoFills
    /\ pc = "separate_target"
    /\ err = "none"
    /\ TrainingIdle
    /\ AuxIdle

Next == PreprocessStep

Spec == Init /\ [][Next]_vars

---------------------------------------------------------------------------
(* run_preprocessing from line 298 on: the three merges, then the call     *)
(* preprocess_data(train_fe, test_fe)                                      *)

\* Lines 298-301.  (The bureau-balance aggregate is left-joined onto the
\* bureau rows on a unique key and none of its columns is aggregated: it
\* changes no modelled column.)
MergeBureau ==
    /\ pc = "merge_bureau"
    /\ IF BureauKeyError(present)
       THEN /\ pc' = "raised"
            /\ err' = "KeyError"
            /\ UNCHANGED <<train_fe, test_fe>>
       ELSE /\ LET bureau_agg == aggregate_bureau_features(data.bureau)
               IN  /\ train_fe' = LeftMerge(train_fe, bureau_agg)
                   /\ test_fe' = LeftMerge(test_fe, bureau_agg)
            /\ pc' = "merge_prev"
            /\ UNCHANGED err
    /\ UNCHANGED <<data, train_df, test_df, y_train, train_ids, test_ids, fills, cow,
                   training_vars, aux_vars>>

\* Lines 305-308.
MergePrev ==
    /\ pc = "merge_prev"
    /\ IF PrevKeyError(present)
       THEN /\ pc' = "raised"
            /\ err' = "KeyError"
            /\ UNCHANGED <<train_fe, test_fe>>
       ELSE /\ LET prev_agg == aggregate_previous_applications(data.prev_app)
               IN  /\ train_fe' = LeftMerge(train_fe, prev_agg)
                   /\ test_fe' = LeftMerge(test_fe, prev_agg)
            /\ pc' = "merge_inst"
            /\ UNCHANGED err
    /\ UNCHANGED <<data, train_df, test_df, y_train, train_ids, test_ids, fills, cow,
                   training_vars, aux_vars>>

\* Lines 312-322.
MergeInst ==
    /\ pc = "merge_inst"
    /\ IF InstKeyError(present)
       THEN /\ pc' = "raised"
            /\ err' = "KeyError"
            /\ UNCHANGED <<train_fe, test_fe>>
       ELSE /\ LET inst_agg == aggregate_installments(data.installments)
               IN  /\ train_fe' = LeftMerge(train_fe, inst_agg)
                   /\ test_fe' = LeftMerge(test_fe, inst_agg)
            /\ pc' = "separate_target"
            /\ UNCHANGED err
    /\ UNCHANGED <<data, train_df, test_df, y_train, train_ids, test_ids, fills, cow,
                   training_vars, aux_vars>>

\* The ledger rows in all three ledgers together.
MaxLedgerRows == 3

\* Applicants 1..MaxRows are the training table, the next TestRows the test
\* table; the ledgers hold rows of two training applicants and of one test
\* applicant, so that an applicant of each table has no ledger row at all.
LedgerIds == {1, 2, MaxRows + 1}

BureauRows ==
    {[SK_ID_CURR |-> id, CREDIT_ACTIVE |-> s,
      AMT_CREDIT_SUM_DEBT |-> IF s = "Active" THEN Num(100) ELSE Num(50)] :
        id \in LedgerIds, s \in {"Active", "Closed"}}

PrevRows ==
    {[SK_ID_CURR |-> id, NAME_CONTRACT_STATUS |-> s] :
        id \in LedgerIds, s \in {"Approved", "Refused"}}

InstRows ==
    {[SK_ID_CURR |-> id, AMT_PAYMENT |-> Num(1), AMT_INSTALMENT |-> a] :
        id \in LedgerIds, a \in {Num(0), Num(2)}}

LedgerSizes ==
    {u \in (0..MaxLedgerRows) \X (0..MaxLedgerRows) \X (0..MaxLedgerRows) :
        u[1] + u[2] + u[3] <= MaxLedgerRows}

Ledgers ==
    UNION {{[bureau |-> b, prev_app |-> p, installments |-> i] :
               b \in [1..u[1] -> BureauRows], p \in [1..u[2] -> PrevRows],
               i \in [1..u[3] -> InstRows]} :
           u \in LedgerSizes}

InitPipeline ==
    /\ \E l \in Ledgers :
        data = [train |-> BuildFrame(<<SK_ID_CURR, TARGET>>, MaxRows, 0, <<>>),
                test |-> BuildFrame(<<SK_ID_CURR>>, TestRows, MaxRows, <<>>),
                bureau |-> l.bureau, prev_app |-> l.prev_app,
                installments |-> l.installments]
    /\ train_fe = data.train
    /\ test_fe = data.test
    /\ cow \in BOOLEAN
    /\ train_df = NoFrame
    /\ test_df = NoFrame
    /\ y_train = NoColumn
    /\ train_ids = NoColumn
    /\ test_ids = NoColumn
    /\ fills = NoFills
    /\ pc = "merge_bureau"
    /\ err = "none"
    /\ TrainingIdle
    /\ AuxIdle

NextPipeline ==
    \/ MergeBureau
    \/ MergePrev
    \/ MergeInst
    \/ PreprocessStep

SpecPipeline == InitPipeline /\ [][NextPipeline]_vars

---------------------------------------------------------------------------
(* train.py: run_training, cross_validate, train_lightgbm and              *)
(* train_final_model.  The labels are y_train, a column of Num(0) and      *)
(* Num(1); a float quotient of two integers is a record [k, n, d]: the     *)
(* number n / d, or inf, or nan.                                           *)

NUM_BOOST_ROUND == 1000

\* (y == v).sum()
CountEq(y, v) == Count(y, LAMBDA x : x = Num(v))

\* a / b of two numpy integers: a zero divisor raises nothing, the quotient
\* is inf, or nan for 0 / 0.
TrueDivide(a, b) ==
    IF b # 0 THEN [k |-> "num", n |-> a, d |-> b]
    ELSE IF a # 0 THEN [k |-> "inf", n |-> 1, d |-> 0]
    ELSE [k |-> "nan", n |-> 0, d |-> 0]

\* Lines 33 and 160.
scale_pos_weight(y) == TrueDivide(CountEq(y, 0), CountEq(y, 1))

\* params['scale_pos_weight'] = scale_pos_weight
SetWeight(prm, w) ==
    [key \in DOMAIN prm \cup {"scale_pos_weight"} |->
        IF key = "scale_pos_weight" THEN w ELSE prm[key]]

\* y.iloc[idx], idx a set of row numbers taken in ascending order.
Take(y, idx) ==
    LET keep == SelectSeq([i \in 1..Len(y) |-> i], LAMBDA i : i \in idx)
    IN  [j \in 1..Len(keep) |-> y[keep[j]]]

\* Lines 29-61: the params the caller passed are written into, and
\* lgb.train is called with them, with early stopping, the training
\* portion and the validation portion as valid_sets.
train_lightgbm(y_tr, prm) ==
    LET weighted == SetWeight(prm, scale_pos_weight(y_tr))
    IN  [params |-> weighted,
         call |-> [by |-> "train_lightgbm", params |-> weighted, rows |-> Len(y_tr),
                   num_boost_round |-> NUM_BOOST_ROUND, early_stopping |-> TRUE,
                   valid_sets |-> <<"train", "valid">>]]

\* The fault of a refit that stops early whatever it is given.
train_final_model_early(y, best) ==
    LET weighted == SetWeight(LGBM_PARAMS, scale_pos_weight(y))
    IN  [by |-> "train_final_model", params |-> weighted, rows |-> Len(y),
         num_boost_round |-> NUM_BOOST_ROUND, early_stopping |-> TRUE,
         valid_sets |-> <<"train">>]

\* Lines 156-184: params is None, so a copy of Config.LGBM_PARAMS is used;
\* valid_sets is the training set alone.
train_final_model(y, best) ==
    LET weighted == SetWeight(LGBM_PARAMS, scale_pos_weight(y))
    IN  [by |-> "train_final_model", params |-> weighted, rows |-> Len(y),
         num_boost_round |-> IF best # None THEN best.v ELSE NUM_BOOST_ROUND,
         early_stopping |-> (best = None),
         valid_sets |-> <<"train">>]

\* StratifiedKFold(n_splits, shuffle=True).split: ValueError for fewer rows
\* than folds, or when no class has n_splits members.
KFoldError(y, k) ==
    \/ Len(y) < k
    \/ \A c \in Range(y) : Count(y, LAMBDA x : x = c) < k

\* The validation rows of each fold: every class is spread evenly over the
\* folds, which rows go where is the shuffle's choice.
StratifiedSplits(y, k) ==
    LET InFold(f, i, c) == Cardinality({r \in 1..Len(y) : f[r] = i /\ y[r] = c})
        Balanced(f) ==
            \A c \in Range(y) : \A i, j \in 1..k : InFold(f, i, c) - InFold(f, j, c) <= 1
    IN  {[i \in 1..k |-> {r \in 1..Len(y) : f[r] = i}] :
            f \in {g \in [1..Len(y) -> 1..k] : Balanced(g)}}

\* The fault of one weight for all folds: the labels of every row.
y_tr_full(y, val_idx) == y

\* Lines 98 and 100: the rows of a fold's training portion.
train_idx(y, val_idx) == (1..Len(y)) \ val_idx
y_tr_fold(y, val_idx) == Take(y, train_idx(y, val_idx))

\* roc_auc_score is undefined for labels of one class.
OneClass(y) == Cardinality(Range(y)) < 2

\* X_train.columns of the training matrix.
X_columns == <<"f1", "f2">>

\* The boosters lgb.train is taken to give: the best_iteration early
\* stopping selected, and feature_importance(importance_type='gain') with
\* one gain per column.
Boosters == {[best_iteration |-> 1, gain |-> <<1, 3>>],
             [best_iteration |-> 2, gain |-> <<3, 1>>]}

\* The booster lgb.train returns: the early stopping callback sets
\* best_iteration, within num_boost_round; without it best_iteration is 0.
lgb_train(call) ==
    IF call.early_stopping
    THEN {m \in Boosters : m.best_iteration <= call.num_boost_round}
    ELSE {[m EXCEPT !.best_iteration = 0] : m \in Boosters}

\* A value run_training holds where it may hold None.
Model(m) == [k |-> "model", v |-> m]
List(xs) == [k |-> "list", v |-> xs]
Table(rows) == [k |-> "table", v |-> rows]

\* [m.best_iteration for m in cv_models]
best_iterations(models) == [i \in 1..Len(models) |-> models[i].best_iteration]

\* Line 229: int(np.mean(...)) of positive integers drops the fraction.
MeanBestIteration(models) ==
    SeqSum(best_iterations(models)) \div Len(models)

\* A quotient of integers kept exact: n / d, d positive.
Ratio(n, d) == [n |-> n, d |-> d]
GeRatio(a, b) == a.n * b.d >= b.n * a.d

\* The square root of a quotient, or nan; Zero is the constant 0.
Sqrt(n, d) == [k |-> "sqrt", n |-> n, d |-> d]
NoStd == [k |-> "nan", n |-> 0, d |-> 0]
Zero == Sqrt(0, 1)

\* Lines 114-119 and 130: the importance column of the rows of the
\* concatenated fold tables whose feature is f, fold after fold.
importance_of(models, f) ==
    LET j == CHOOSE c \in 1..Len(X_columns) : X_columns[c] = f
    IN  [i \in 1..Len(models) |-> models[i].gain[j]]

\* Series.mean().
SeriesMean(x) == Ratio(SeqSum(x), Len(x))
SumSq(x) == SeqSum([i \in 1..Len(x) |-> x[i] * x[i]])

\* The fault of the deviation over the population (ddof = 0).
SeriesStdPopulation(x) ==
    IF Len(x) < 1 THEN NoStd
    ELSE Sqrt(Len(x) * SumSq(x) - SeqSum(x) * SeqSum(x), Len(x) * Len(x))

\* Series.std(): the sample deviation (ddof = 1), nan for one value.
SeriesStd(x) ==
    IF Len(x) < 2 THEN NoStd
    ELSE Sqrt(Len(x) * SumSq(x) - SeqSum(x) * SeqSum(x), Len(x) * (Len(x) - 1))

\* Lines 131-134: groupby('feature').agg({'importance': ['mean', 'std']}),
\* one row per feature name, in the order of the names (the order
\* X_columns has them in).
importance_agg(models) ==
    LET names == X_columns
    IN  [r \in 1..Len(names) |->
            [feature |-> names[r],
             importance_mean |-> SeriesMean(importance_of(models, names[r])),
             importance_std |-> SeriesStd(importance_of(models, names[r]))]]

\* The fault of a table left in the order of its rows.
sort_values_skipped(rows) == {rows}

\* sort_values('importance_mean', ascending=False): quicksort is not stable,
\* rows of equal mean come in any order.
sort_values(rows) ==
    LET n == Len(rows)
        Perms == {q \in [1..n -> 1..n] : \A i, j \in 1..n : i # j => q[i] # q[j]}
        Sorted(t) == \A i \in 1..(n - 1) :
                        GeRatio(t[i].importance_mean, t[i + 1].importance_mean)
    IN  {t \in {[i \in 1..n |-> rows[q[i]]] : q \in Perms} : Sorted(t)}

\* Lines 237-240: the table of the final model alone.
final_importance(model) ==
    [j \in 1..Len(X_columns) |->
        [feature |-> X_columns[j],
         importance_mean |-> Ratio(model.gain[j], 1),
         importance_std |-> Zero]]

\* Lines 195-196 and 249: the paths written under Config.MODEL_PATH; the
\* timestamp of a model file has the resolution of a second.
ModelPath(t) == [file |-> "model.pkl", timestamp |-> Some(t)]
ImportancePath == [file |-> "feature_importance.csv", timestamp |-> None]

\* open(path, 'w') and a write: the file is created or replaced.
WriteFile(fs, path, content) ==
    [q \in DOMAIN fs \cup {path} |-> IF q = path THEN content ELSE fs[q]]

\* Lines 220-226.
RunTraining ==
    /\ pc = "run_training"
    /\ pc' = IF do_cv THEN "cross_validate" ELSE "train_final_model"
    /\ UNCHANGED <<prep_vars, aux_vars, y_train, err, training_vars>>

\* Lines 82-93: the first split is asked for.
CrossValidate ==
    /\ pc = "cross_validate"
    /\ params' = LGBM_PARAMS
    /\ IF KFoldError(y_train, n_splits)
       THEN /\ pc' = "raised"
            /\ err' = "ValueError"
            /\ UNCHANGED <<splits, fold>>
       ELSE /\ splits' \in StratifiedSplits(y_train, n_splits)
            /\ fold' = 1
            /\ pc' = "fold"
            /\ UNCHANGED err
    /\ UNCHANGED <<prep_vars, aux_vars, y_train, do_cv, n_splits, save_model_flag, lgb_calls,
                   cv_models, cv_scores, run_vars, file_vars>>

\* Lines 93-121, one fold: roc_auc_score on a validation fold of one class
\* raises ValueError, or warns and gives nan, by the version of the library.
CrossValidateFold ==
    /\ pc = "fold"
    /\ LET val_idx == splits[fold]
           y_val_fold == Take(y_train, val_idx)
           r == train_lightgbm(y_tr_fold(y_train, val_idx), params)
       IN  /\ params' = r.params
           /\ lgb_calls' = Append(lgb_calls, [fold |-> fold] @@ r.call)
           /\ \/ /\ OneClass(y_val_fold)
                 /\ pc' = "raised"
                 /\ err' = "ValueError"
                 /\ UNCHANGED <<fold, cv_models, cv_scores>>
              \/ /\ \E model \in lgb_train(r.call) :
                        cv_models' = Append(cv_models, model)
                 /\ cv_scores' = Append(cv_scores,
                                        IF OneClass(y_val_fold) THEN "nan" ELSE "auc")
                 /\ fold' = fold + 1
                 /\ pc' = IF fold = n_splits THEN "cv_done" ELSE "fold"
                 /\ UNCHANGED err
    /\ UNCHANGED <<prep_vars, aux_vars, y_train, do_cv, n_splits, save_model_flag, splits,
                   run_vars, file_vars>>

\* Lines 130-137 and 226-230: cross_validate returns its scores, its models
\* and the aggregated table; run_training averages the best iterations.
FinishCV ==
    /\ pc = "cv_done"
    /\ \E t \in sort_values(importance_agg(cv_models)) :
            feature_importance' = Table(t)
    /\ best_iteration' = Some(MeanBestIteration(cv_models))
    /\ pc' = "train_final_model"
    /\ UNCHANGED <<prep_vars, aux_vars, y_train, err, do_cv, n_splits, save_model_flag,
                   lgb_calls, cv_vars, final_model, returned, file_vars>>

\* Line 233: train_final_model(X_train, y_train, best_iteration=best_iteration).
TrainFinalModel ==
    /\ pc = "train_final_model"
    /\ LET call == train_final_model(y_train, best_iteration)
       IN  /\ lgb_calls' = Append(lgb_calls, [fold |-> 0] @@ call)
           /\ \E model \in lgb_train(call) : final_model' = Model(model)
    /\ pc' = "trained"
    /\ UNCHANGED <<prep_vars, aux_vars, y_train, err, do_cv, n_splits, save_model_flag,
                   cv_vars, best_iteration, feature_importance, returned, file_vars>>

\* Lines 236-257: the table of the final model when there is none, the
\* model file when asked for, the importance file, and the return.
FinishTraining ==
    /\ pc = "trained"
    /\ \E t \in sort_values(final_importance(final_model.v)) :
        LET importance == IF feature_importance = None THEN Table(t)
                          ELSE feature_importance
            saved == IF save_model_flag
                     THEN WriteFile(files, ModelPath(now), final_model)
                     ELSE files
            written == IF save_model_flag
                       THEN Append(writes, [run |-> runs, path |-> ModelPath(now)])
                       ELSE writes
        IN  /\ feature_importance' = importance
            /\ files' = WriteFile(saved, ImportancePath, importance)
            /\ writes' = Append(written, [run |-> runs, path |-> ImportancePath])
            /\ returned' = [final_model |-> final_model,
                            cv_scores |-> IF do_cv THEN List(cv_scores) ELSE None,
                            feature_importance |-> importance]
    /\ pc' = "returned"
    /\ UNCHANGED <<prep_vars, aux_vars, y_train, err, do_cv, n_splits, save_model_flag,
                   lgb_calls, cv_vars, best_iteration, final_model, now, runs>>

\* The rows of the label column and the folds run_training is modelled with
\* (Config.N_SPLITS is 5; the loop is the same for every number of folds).
MaxLabels == 5
MaxSplits == 3

LabelInputs == UNION {[1..n -> {Num(0), Num(1)}] : n \in 0..MaxLabels}

\* run_training called on a label column; nothing of preprocessing is held.
InitTraining ==
    /\ y_train \in LabelInputs
    /\ do_cv \in BOOLEAN
    /\ n_splits \in 2..MaxSplits
    /\ splits = <<>>
    /\ fold = 0
    /\ params = LGBM_PARAMS
    /\ lgb_calls = <<>>
    /\ cv_models = <<>>
    /\ cv_scores = <<>>
    /\ best_iteration = None
    /\ save_model_flag = TRUE
    /\ final_model = None
    /\ feature_importance = None
    /\ returned = None
    /\ files = NoFiles
    /\ writes = <<>>
    /\ now = 0
    /\ runs = 1
    /\ data = [train |-> NoFrame, test |-> NoFrame, bureau |-> NoTable,
               prev_app |-> NoTable, installments |-> NoTable]
    /\ train_fe = NoFrame
    /\ test_fe = NoFrame
    /\ train_df = NoFrame
    /\ test_df = NoFrame
    /\ train_ids = NoColumn
    /\ test_ids = NoColumn
    /\ fills = NoFills
    /\ cow = FALSE
    /\ pc = "run_training"
    /\ err = "none"
    /\ AuxIdle

NextTraining ==
    \/ RunTraining
    \/ CrossValidate
    \/ CrossValidateFold
    \/ FinishCV
    \/ TrainFinalModel
    \/ FinishTraining

SpecTraining == InitTraining /\ [][NextTraining]_vars

\* run_training called on label columns whose every fold holds both
\* classes: three rows of the positive class among FoldRows rows, in two
\* or three folds.
FoldRows == 6

FoldLabels ==
    {y \in [1..FoldRows -> {Num(0), Num(1)}] : CountEq(y, 1) = 3}

InitFolds ==
    /\ y_train \in FoldLabels
    /\ do_cv \in BOOLEAN
    /\ n_splits \in {2, 3}
    /\ save_model_flag \in BOOLEAN
    /\ splits = <<>>
    /\ fold = 0
    /\ params = LGBM_PARAMS
    /\ lgb_calls = <<>>
    /\ cv_models = <<>>
    /\ cv_scores = <<>>
    /\ best_iteration = None
    /\ final_model = None
    /\ feature_importance = None
    /\ returned = None
    /\ files = NoFiles
    /\ writes = <<>>
    /\ now = 0
    /\ runs = 1
    /\ data = [train |-> NoFrame, test |-> NoFrame, bureau |-> NoTable,
               prev_app |-> NoTable, installments |-> NoTable]
    /\ train_fe = NoFrame
    /\ test_fe = NoFrame
    /\ train_df = NoFrame
    /\ test_df = NoFrame
    /\ train_ids = NoColumn
    /\ test_ids = NoColumn
    /\ fills = NoFills
    /\ cow = FALSE
    /\ pc = "run_training"
    /\ err = "none"
    /\ AuxIdle

SpecFolds == InitFolds /\ [][NextTraining]_vars

---------------------------------------------------------------------------
(* train.py: run_training called again and again                           *)

\* The calls of run_training, and the seconds the clock may advance.
MaxRuns == 2
MaxClock == 1

\* A second passes. Only save_model reads the clock, so it is enough to let
\* the seconds pass between two calls of run_training.
Tick ==
    /\ pc \in {"returned", "raised"}
    /\ now < MaxClock
    /\ now' = now + 1
    /\ UNCHANGED <<prep_vars, aux_vars, y_train, pc, err, do_cv, n_splits,
                   save_model_flag, lgb_calls, cv_vars, run_vars, files, writes, runs>>

\* run_training is called once more, on the same data: lines 220-222.
Restart ==
    /\ pc \in {"returned", "raised"}
    /\ runs < MaxRuns
    /\ runs' = runs + 1
    /\ do_cv' \in BOOLEAN
    /\ save_model_flag' \in BOOLEAN
    /\ splits' = <<>>
    /\ fold' = 0
    /\ params' = LGBM_PARAMS
    /\ lgb_calls' = <<>>
    /\ cv_models' = <<>>
    /\ cv_scores' = <<>>
    /\ best_iteration' = None
    /\ final_model' = None
    /\ feature_importance' = None
    /\ returned' = None
    /\ pc' = "run_training"
    /\ err' = "none"
    /\ UNCHANGED <<prep_vars, aux_vars, y_train, n_splits, files, writes, now>>

\* run_training called on four rows, two of each class, in two folds.
InitRuns ==
    /\ y_train = <<Num(0), Num(1), Num(0), Num(1)>>
    /\ do_cv \in BOOLEAN
    /\ n_splits = 2
    /\ save_model_flag \in BOOLEAN
    /\ splits = <<>>
    /\ fold = 0
    /\ params = LGBM_PARAMS
    /\ lgb_calls = <<>>
    /\ cv_models = <<>>
    /\ cv_scores = <<>>
    /\ best_iteration = None
    /\ final_model = None
    /\ feature_importance = None
    /\ returned = None
    /\ files = NoFiles
    /\ writes = <<>>
    /\ now = 0
    /\ runs = 1
    /\ data = [train |-> NoFrame, test |-> NoFrame, bureau |-> NoTable,
               prev_app |-> NoTable, installments |-> NoTable]
    /\ train_fe = NoFrame
    /\ test_fe = NoFrame
    /\ train_df = NoFrame
    /\ test_df = NoFrame
    /\ train_ids = NoColumn
    /\ test_ids = NoColumn
    /\ fills = NoFills
    /\ cow = FALSE
    /\ pc = "run_training"
    /\ err = "none"
    /\ AuxIdle

NextRuns ==
    \/ NextTraining
    \/ Tick
    \/ Restart

SpecRuns == InitRuns /\ [][NextRuns]_vars

---------------------------------------------------------------------------
(* preprocess.py: the aggregations, each called on a ledger table          *)

\* Lines 85-136.
AggregateBureau ==
    /\ pc = "aggregate_bureau_features"
    /\ IF BureauKeyError(present)
       THEN /\ pc' = "raised"
            /\ err' = "KeyError"
            /\ UNCHANGED aggregate
       ELSE /\ aggregate' = aggregate_bureau_features(data.bureau)
            /\ pc' = "bureau_aggregated"
            /\ UNCHANGED err
    /\ UNCHANGED <<prep_vars, y_train, training_vars, eval_vars, present,
                   schema_vars, ext_vars>>

\* Lines 140-178.
AggregatePrev ==
    /\ pc = "aggregate_previous_applications"
    /\ IF PrevKeyError(present)
       THEN /\ pc' = "raised"
            /\ err' = "KeyError"
            /\ UNCHANGED aggregate
       ELSE /\ aggregate' = aggregate_previous_applications(data.prev_app)
            /\ pc' = "prev_aggregated"
            /\ UNCHANGED err
    /\ UNCHANGED <<prep_vars, y_train, training_vars, eval_vars, present,
                   schema_vars, ext_vars>>

\* Lines 182-208.
AggregateInst ==
    /\ pc = "aggregate_installments"
    /\ IF InstKeyError(present)
       THEN /\ pc' = "raised"
            /\ err' = "KeyError"
            /\ UNCHANGED aggregate
       ELSE /\ aggregate' = aggregate_installments(data.installments)
            /\ pc' = "inst_aggregated"
            /\ UNCHANGED err
    /\ UNCHANGED <<prep_vars, y_train, training_vars, eval_vars, present,
                   schema_vars, ext_vars>>

\* The rows of the table an aggregation is called on.
MaxAggRows == 3

\* Bureau rows of two applicants: a credit is active, closed or sold, and
\* its debt is the active or the closed amount, or missing.
BureauLedgerRows ==
    {[SK_ID_CURR |-> id, CREDIT_ACTIVE |-> s, AMT_CREDIT_SUM_DEBT |-> d] :
        id \in {1, 2}, s \in {"Active", "Closed", "Sold"},
        d \in {Num(100), NaN}}
    \cup {r \in BureauRows : r.SK_ID_CURR \in {1, 2}}

\* A table without one of its columns.
Without(cols, table) == {[cols EXCEPT ![table] = @ \ {c}] : c \in cols[table]}

\* A call of one aggregation: on a table of up to MaxAggRows rows that has
\* all its columns, or on a table of at most one row that lacks a column.
LedgerCalls ==
    LET Tables(rows, n) == UNION {[1..m -> rows] : m \in 0..n}
        Call0(f, b, p, i, cols) ==
            [pc |-> f, bureau |-> b, prev_app |-> p, installments |-> i,
             present |-> cols]
    IN  {Call0("aggregate_bureau_features", b, <<>>, <<>>, RawColumns) :
            b \in Tables(BureauLedgerRows, MaxAggRows)}
        \cup {Call0("aggregate_bureau_features", b, <<>>, <<>>, cols) :
                b \in Tables(BureauLedgerRows, 1),
                cols \in Without(RawColumns, "bureau")
                            \cup Without(RawColumns, "bureau_balance")}
        \cup {Call0("aggregate_previous_applications", <<>>, t, <<>>, RawColumns) :
                t \in Tables(PrevRows, MaxAggRows)}
        \cup {Call0("aggregate_previous_applications", <<>>, t, <<>>, cols) :
                t \in Tables(PrevRows, 1), cols \in Without(RawColumns, "prev_app")}
        \cup {Call0("aggregate_installments", <<>>, <<>>, t, RawColumns) :
                t \in Tables(InstRows, MaxAggRows)}
        \cup {Call0("aggregate_installments", <<>>, <<>>, t, cols) :
                t \in Tables(InstRows, 1), cols \in Without(RawColumns, "installments")}

InitLedger ==
    /\ \E c \in LedgerCalls :
        /\ pc = c.pc
        /\ data = [train |-> NoFrame, test |-> NoFrame, bureau |-> c.bureau,
                   prev_app |-> c.prev_app, installments |-> c.installments]
        /\ present = c.present
    /\ aggregate = None
    /\ EvalIdle
    /\ SchemaIdle
    /\ ExtIdle
    /\ TrainingIdle
    /\ y_train = NoColumn
    /\ train_fe = NoFrame
    /\ test_fe = NoFrame
    /\ train_df = NoFrame
    /\ test_df = NoFrame
    /\ train_ids = NoColumn
    /\ test_ids = NoColumn
    /\ fills = NoFills
    /\ cow = FALSE
    /\ err = "none"

NextLedger ==
    \/ AggregateBureau
    \/ AggregatePrev
    \/ AggregateInst

SpecLedger == InitLedger /\ [][NextLedger]_vars

---------------------------------------------------------------------------
(* utils.py: save_json, load_json, load_feature_schema                     *)

\* The fault of a reader for which NaN is no number.
load_float_strict(t) ==
    CASE t.token = "Infinity" -> PosInf
      [] t.token = "-Infinity" -> NegInf
      [] t.token = "NaN" -> Quarter(0)
      [] OTHER -> Quarter(t.v)

\* json.dump of a float writes its repr, which reads back as the same
\* float, and NaN, Infinity or -Infinity for what is no number.
dump_float(x) ==
    CASE x.k = "nan" -> [token |-> "NaN", v |-> 0]
      [] x.k = "inf" -> [token |-> IF x.v > 0 THEN "Infinity" ELSE "-Infinity", v |-> 0]
      [] OTHER -> [token |-> "number", v |-> x.v]

\* json.load of a number.
load_float(t) ==
    CASE t.token = "Infinity" -> PosInf
      [] t.token = "-Infinity" -> NegInf
      [] t.token = "NaN" -> NaN
      [] OTHER -> Quarter(t.v)

\* Lines 90-94, json.dump(obj): a list is an array of strings, a dict an
\* object of its keys, any other value of a schema a string.
json_dump(obj) ==
    [key \in DOMAIN obj |->
        CASE key = "features" ->
                [i \in 1..Len(obj[key]) |-> [token |-> "string", v |-> obj[key][i]]]
          [] key = "medians" ->
                [f \in DOMAIN obj[key] |-> dump_float(obj[key][f])]
          [] OTHER -> [token |-> "string", v |-> obj[key]]]

\* Lines 97-102, json.load.
json_load(text) ==
    [key \in DOMAIN text |->
        CASE key = "features" -> [i \in 1..Len(text[key]) |-> text[key][i].v]
          [] key = "medians" -> [f \in DOMAIN text[key] |-> load_float(text[key][f])]
          [] OTHER -> text[key].v]

\* Lines 139-164: the schema of the file when it lists features; or else
\* one derived from X_train.pkl, written to the file, with no medians.
load_feature_schema(file, pkl) ==
    LET schema == json_load(file)
        features == IF "features" \in DOMAIN schema THEN schema.features ELSE <<>>
        derived == [features |-> pkl.v, source |-> "./processed/X_train.pkl",
                    last_updated |-> "today"]
    IN  IF file # None /\ features # <<>>
        THEN [returned |-> schema, file |-> file, err |-> "none"]
        ELSE IF pkl = None
        THEN [returned |-> None, file |-> file, err |-> "FileNotFoundError"]
        ELSE [returned |-> derived, file |-> json_dump(derived), err |-> "none"]

\* save_json(schema, schema_path).
SaveJson ==
    /\ pc = "save_json"
    /\ schema_json' = json_dump(persisted)
    /\ pc' = "load_feature_schema"
    /\ UNCHANGED <<prep_vars, y_train, err, training_vars, eval_vars, ledger_vars,
                   persisted, x_train_pkl, loaded, ext_vars>>

\* load_feature_schema().
LoadFeatureSchema ==
    /\ pc = "load_feature_schema"
    /\ LET r == load_feature_schema(schema_json, x_train_pkl)
       IN  /\ loaded' = r.returned
           /\ schema_json' = r.file
           /\ err' = r.err
           /\ pc' = IF r.err = "none" THEN "schema_loaded" ELSE "raised"
    /\ UNCHANGED <<prep_vars, y_train, training_vars, eval_vars, ledger_vars,
                   persisted, x_train_pkl, ext_vars>>

\* The features of a schema, and the medians a feature may have.
MaxFeatures == 2

SchemaNames == {"f1", "f2", "f3"}

MedianInputs == {Num(1), Quarter(1), NaN, PosInf}

FeatureLists ==
    UNION {{f \in [1..n -> SchemaNames] : \A i, j \in 1..n : i # j => f[i] # f[j]} :
            n \in 0..MaxFeatures}

Schemas ==
    UNION {{[features |-> f, medians |-> m] : m \in [Range(f) -> MedianInputs]} :
            f \in FeatureLists}

\* A schema is about to be persisted and loaded; or load_feature_schema is
\* called when no schema file exists.
InitSchema ==
    /\ \/ pc = "save_json" /\ persisted \in Schemas
       \/ pc = "load_feature_schema" /\ persisted = None
    /\ schema_json = None
    /\ x_train_pkl \in {None, List(<<"f1">>), List(<<"f3", "f1">>)}
    /\ loaded = None
    /\ EvalIdle
    /\ LedgerIdle
    /\ ExtIdle
    /\ TrainingIdle
    /\ y_train = NoColumn
    /\ data = [train |-> NoFrame, test |-> NoFrame, bureau |-> NoTable,
               prev_app |-> NoTable, installments |-> NoTable]
    /\ train_fe = NoFrame
    /\ test_fe = NoFrame
    /\ train_df = NoFrame
    /\ test_df = NoFrame
    /\ train_ids = NoColumn
    /\ test_ids = NoColumn
    /\ fills = NoFills
    /\ cow = FALSE
    /\ err = "none"

NextSchema ==
    \/ SaveJson
    \/ LoadFeatureSchema

SpecSchema == InitSchema /\ [][NextSchema]_vars

---------------------------------------------------------------------------
(* evaluate.py: find_optimal_threshold                                     *)

\* The distinct values of a set of scores, the largest first.
DescendingScores(S) ==
    LET RECURSIVE Go(_)
        Go(T) == IF T = {} THEN <<>>
                 ELSE LET m == CHOOSE x \in T : \A y \in T : y.v <= x.v
                      IN  <<m>> \o Go(T \ {m})
    IN  Go(S)

\* The rows of label c whose score is at least t.
CountAtLeast(y, s, t, c) ==
    Cardinality({i \in 1..Len(s) : s[i].v >= t.v /\ y[i] = c})

\* roc_curve, its counts: one point per distinct score, the largest first,
\* with the false and true positives of the threshold at that score.
binary_clf_curve(y, s) ==
    LET t == DescendingScores(Range(s))
    IN  [i \in 1..Len(t) |-> [fps |-> CountAtLeast(y, s, t[i], 0),
                              tps |-> CountAtLeast(y, s, t[i], 1),
                              threshold |-> t[i]]]

\* roc_curve, drop_intermediate=True: of more than two points, an inner
\* point is kept where the second difference of fps or of tps is not zero.
drop_intermediate(c) ==
    LET n == Len(c)
        Bend(i) == \/ (c[i + 1].fps - c[i].fps) # (c[i].fps - c[i - 1].fps)
                   \/ (c[i + 1].tps - c[i].tps) # (c[i].tps - c[i - 1].tps)
        keep == SortedKeys({i \in 1..n : i = 1 \/ i = n \/ Bend(i)})
    IN  IF n > 2 THEN [j \in 1..Len(keep) |-> c[keep[j]]] ELSE c

\* roc_curve: the point (0, 0) is put first, its threshold being inf, or
\* the largest score plus one, by the version of the library.
FirstThreshold(c, first) ==
    IF first = "inf" THEN PosInf ELSE Quarter(c[1].threshold.v + 4)

roc_points(y, s, first) ==
    LET c == drop_intermediate(binary_clf_curve(y, s))
    IN  <<[fps |-> 0, tps |-> 0, threshold |-> FirstThreshold(c, first)]>> \o c

\* roc_curve and line 72: tpr - fpr at every point, tps / P - fps / N; when
\* a class has no row its rate is nan at every point.
j_scores(pts) ==
    LET P == pts[Len(pts)].tps
        N == pts[Len(pts)].fps
    IN  [i \in 1..Len(pts) |->
            IF P = 0 \/ N = 0 THEN [k |-> "nan", n |-> 0, d |-> 0]
            ELSE [k |-> "num", n |-> pts[i].tps * N - pts[i].fps * P, d |-> P * N]]

\* The fault of the last index of the maximum.
argmax_last(j) ==
    CHOOSE i \in 1..Len(j) :
        /\ \A m \in 1..Len(j) : j[m].n <= j[i].n
        /\ \A m \in (i + 1)..Len(j) : j[m].n < j[i].n

\* np.argmax: the first nan when there is one, or else the first index of
\* the maximum (the scores of one curve have one denominator).
argmax(j) ==
    IF \E i \in 1..Len(j) : j[i].k = "nan"
    THEN CHOOSE i \in 1..Len(j) :
            j[i].k = "nan" /\ \A m \in 1..(i - 1) : j[m].k # "nan"
    ELSE CHOOSE i \in 1..Len(j) :
            /\ \A m \in 1..Len(j) : j[m].n <= j[i].n
            /\ \A m \in 1..(i - 1) : j[m].n < j[i].n

\* Lines 69-80.
FindOptimalThreshold ==
    /\ pc = "find_optimal_threshold"
    /\ LET pts == roc_points(y_true, y_pred_proba, roc_first)
           idx == argmax(j_scores(pts))
       IN  /\ optimal_idx' = Some(idx)
           /\ optimal_threshold' = pts[idx].threshold
    /\ pc' = "threshold_found"
    /\ UNCHANGED <<prep_vars, y_train, err, training_vars, y_true, y_pred_proba,
                   roc_first, ledger_vars, schema_vars, ext_vars>>

\* The rows find_optimal_threshold is called with, and their scores in
\* quarters.
MaxScores == 4

ScoreInputs == {Quarter(1), Quarter(2), Quarter(3)}

\* find_optimal_threshold called on labels and scores of the same length.
InitThreshold ==
    /\ \E n \in 1..MaxScores :
        /\ y_true \in [1..n -> {0, 1}]
        /\ y_pred_proba \in [1..n -> ScoreInputs]
    /\ roc_first \in {"inf", "max_plus_one"}
    /\ optimal_idx = None
    /\ optimal_threshold = None
    /\ LedgerIdle
    /\ SchemaIdle
    /\ ExtIdle
    /\ TrainingIdle
    /\ y_train = NoColumn
    /\ data = [train |-> NoFrame, test |-> NoFrame, bureau |-> NoTable,
               prev_app |-> NoTable, installments |-> NoTable]
    /\ train_fe = NoFrame
    /\ test_fe = NoFrame
    /\ train_df = NoFrame
    /\ test_df = NoFrame
    /\ train_ids = NoColumn
    /\ test_ids = NoColumn
    /\ fills = NoFills
    /\ cow = FALSE
    /\ pc = "find_optimal_threshold"
    /\ err = "none"

NextThreshold == FindOptimalThreshold

SpecThreshold == InitThreshold /\ [][NextThreshold]_vars

---------------------------------------------------------------------------
(* Properties of preprocess_data (specification Spec)                      *)

Index(s, x) == CHOOSE i \in 1..Len(s) : s[i] = x

\* The feature columns that reach the missing-value handling of line 252.
CommonFeatures == (ColSet(data.train) \cap ColSet(data.test)) \ {SK_ID_CURR, TARGET}

\* A column the training frame holds as strings.
IsCategorical(c) == HasCol(data.train, c) /\ IsObject(data.train.data[c])

\* C1: the frames preprocess_data returns have the same column names in the
\* same order, whatever the columns and column orders of its two inputs.
C1_SameColumns == pc = "returned" => train_df.cols = test_df.cols

\* C1 happens: two columns are returned that the inputs hold in opposite
\* orders, and the test input has a column the training input lacks.
C1_Witness ==
    /\ pc = "returned"
    /\ ~(ColSet(data.test) \subseteq ColSet(data.train))
    /\ \E c, d \in ColSet(train_df) :
        /\ Index(data.train.cols, c) < Index(data.train.cols, d)
        /\ Index(data.test.cols, c) > Index(data.test.cols, d)

\* C2 as the specification states it: no cell of a returned frame is NaN,
\* +inf or -inf.
C2_NoMissingOrInfinite ==
    pc = "returned" =>
        \A df \in {train_df, test_df} : \A c \in ColSet(df) : \A i \in 1..df.n :
            IsFinite(df.data[c][i])

TrainMedians(x) ==
    {Median(x), Median(ReplaceInf(x)), Median(ReplaceInf(FillNa(x, Median(x))))}

\* The test frames of the same columns and rows as te that differ from it
\* in the values of one feature column.
OtherTestFrames(te) ==
    UNION {{SetColumn(te, c, b) :
               b \in IF IsCategorical(c) \/ IsObject(te.data[c])
                     THEN CatColumns(te.n) ELSE NumericColumns(te.n)} :
           c \in ColSet(te) \ {SK_ID_CURR, TARGET}}

\* C6: every cell of a returned numeric column that was missing or infinite
\* in the input holds a median of the training column; and the call on the
\* same training frame with other test values returns too, keeps the same
\* columns and fills the same values.
C6_TrainOnlyFills ==
    pc = "returned" =>
        /\ \A c \in ColSet(train_df) : ~IsCategorical(c) =>
            /\ \A i \in 1..train_df.n : ~IsFinite(data.train.data[c][i]) =>
                    train_df.data[c][i] \in TrainMedians(data.train.data[c])
            /\ \A i \in 1..test_df.n : ~IsFinite(data.test.data[c][i]) =>
                    test_df.data[c][i] \in TrainMedians(data.train.data[c])
        /\ \A alt \in OtherTestFrames(data.test) :
            LET other == preprocess_data(data.train, alt, cow)
            IN  /\ other.pc = "returned"
                /\ other.train_df.cols = train_df.cols
                /\ other.test_df.cols = test_df.cols
                /\ other.fills.loop = fills.loop
                /\ other.fills.train = fills.train
                /\ \A c \in DOMAIN other.fills.test \cap DOMAIN fills.test :
                        other.fills.test[c] = fills.test[c]

\* C6 happens: a missing training cell and a missing test cell of one column
\* are both returned as the column's finite training median, which is not
\* the median of the test column.
C6_Witness ==
    /\ pc = "returned"
    /\ \E c \in ColSet(test_df) :
        /\ ~IsCategorical(c)
        /\ IsFinite(Median(data.train.data[c]))
        /\ Median(data.test.data[c]) # Median(data.train.data[c])
        /\ \E i \in 1..train_df.n :
            /\ IsNull(data.train.data[c][i])
            /\ train_df.data[c][i] = Median(data.train.data[c])
        /\ \E i \in 1..test_df.n :
            /\ IsNull(data.test.data[c][i])
            /\ test_df.data[c][i] = Median(data.train.data[c])

\* C7: in a categorical column every code is an integer, and cells of equal
\* raw value have equal codes, within and across the two frames.
C7_OneCodePerValue ==
    pc = "returned" =>
        \A c \in ColSet(train_df) : IsCategorical(c) =>
            LET raw == data.train.data[c] \o data.test.data[c]
                code == train_df.data[c] \o test_df.data[c]
            IN  /\ \A i \in 1..Len(code) :
                    /\ IsFinite(code[i])
                    /\ code[i].v % 4 = 0
                    /\ code[i].v \div 4 \in 0..(Cardinality(Range(raw)) - 1)
                /\ \A i, j \in 1..Len(raw) : raw[i] = raw[j] => code[i] = code[j]

\* C7 happens: the test frame has a category the training frame has not,
\* both share another one, and the two have different codes.
C7_Witness ==
    /\ pc = "returned"
    /\ \E c \in ColSet(train_df) :
        /\ IsCategorical(c)
        /\ \E i \in 1..data.train.n : \E j, k \in 1..data.test.n :
            /\ data.test.data[c][j] = data.train.data[c][i]
            /\ data.test.data[c][k] \notin Range(data.train.data[c])
            /\ data.test.data[c][k].k = "str"
            /\ test_df.data[c][j] = train_df.data[c][i]
            /\ test_df.data[c][k] # test_df.data[c][j]

\* C8: without the target column in the training frame the call raises at
\* its first statement: nothing was encoded (the caller's test frame is as
\* it was), dropped or imputed, and nothing is returned.
C8_FailFast ==
    ~HasCol(data.train, TARGET) =>
        /\ pc \in {"separate_target", "raised"}
        /\ pc = "raised" => err = "KeyError"
        /\ test_fe = data.test
        /\ train_df = NoFrame
        /\ test_df = NoFrame
        /\ y_train = NoColumn
        /\ fills = NoFills

\* C8 happens: the call has raised on a training frame without target that
\* has a categorical column and a column with missing cells.
C8_Witness ==
    /\ pc = "raised"
    /\ ~HasCol(data.train, TARGET)
    /\ categorical_cols(data.train) # <<>>
    /\ \E c \in ColSet(data.train) : Count(data.train.data[c], IsNull) > 0

---------------------------------------------------------------------------
(* Properties of the merges of run_preprocessing (specification            *)
(* SpecPipeline)                                                           *)

Merging == pc \in {"merge_bureau", "merge_prev", "merge_inst"}

\* The applicant of an id cell has no row in any ledger.
NoLedgerRows(id) ==
    \A rows \in {data.bureau, data.prev_app, data.installments} :
        \A i \in 1..Len(rows) : Num(rows[i].SK_ID_CURR) # id

\* The columns the merges added.
AggregatedColumns == ColSet(train_fe) \ ColSet(data.train)

UniqueIds(df) ==
    \A i, j \in 1..df.n : df.data[SK_ID_CURR][i] = df.data[SK_ID_CURR][j] => i = j

\* C3: with unique applicant ids, after each merge the feature frames have
\* the applicants of the loaded tables, each once and in the same order.
C3_OneRowPerApplicant ==
    UniqueIds(data.train) /\ UniqueIds(data.test) =>
        /\ train_fe.n = data.train.n
        /\ train_fe.data[SK_ID_CURR] = data.train.data[SK_ID_CURR]
        /\ test_fe.n = data.test.n
        /\ test_fe.data[SK_ID_CURR] = data.test.data[SK_ID_CURR]

\* C3 happens: the three merges are done, one training applicant has two
\* bureau rows, another has rows in no ledger, and so has a test applicant.
C3_Witness ==
    /\ pc = "separate_target"
    /\ HasCol(train_fe, "INST_SK_ID_PREV_COUNT")
    /\ \E i \in 1..train_fe.n :
        Len(Group(data.bureau, train_fe.data[SK_ID_CURR][i].v \div 4)) >= 2
    /\ \E i \in 1..train_fe.n : NoLedgerRows(train_fe.data[SK_ID_CURR][i])
    /\ \E i \in 1..test_fe.n : NoLedgerRows(test_fe.data[SK_ID_CURR][i])

---------------------------------------------------------------------------
(* Properties of run_training (specification SpecTraining)                 *)

\* The rows a call of lgb.train was given the labels of.
PortionOf(call) ==
    IF call.fold = 0 THEN 1..Len(y_train) ELSE (1..Len(y_train)) \ splits[call.fold]

LabelCount(rows, v) == Cardinality({r \in rows : y_train[r] = Num(v)})

\* C9: the i-th call of lgb.train in cross_validate is fold i's, the call
\* of train_final_model is for all rows, and each is passed as
\* scale_pos_weight the count of label 0 over the count of label 1 among
\* the rows it trains on (where that quotient is defined).
C9_FoldWeight ==
    \A i \in 1..Len(lgb_calls) :
        LET call == lgb_calls[i]
            w == call.params.scale_pos_weight
            rows == PortionOf(call)
        IN  /\ call.fold = IF call.by = "train_final_model" THEN 0 ELSE i
            /\ call.rows = Cardinality(rows)
            /\ LabelCount(rows, 1) > 0 =>
                /\ w.k = "num"
                /\ w.n * LabelCount(rows, 1) = LabelCount(rows, 0) * w.d

\* The quotients a and b are different numbers.
Differ(a, b) == a.n * b.d # b.n * a.d

\* C9 happens: two folds and the final refit were trained, each on rows
\* with positives, with three different weights.
C9_Witness ==
    /\ pc = "trained"
    /\ Len(lgb_calls) = 3
    /\ \A i \in 1..3 : lgb_calls[i].params.scale_pos_weight.k = "num"
    /\ \A i, j \in 1..3 : i # j =>
        Differ(lgb_calls[i].params.scale_pos_weight, lgb_calls[j].params.scale_pos_weight)

\* C10 as the specification states it: lgb.train is never started on labels
\* without a positive, with the infinite or NaN weight they give.
C10_ZeroPositivesRaise ==
    \A i \in 1..Len(lgb_calls) :
        LabelCount(PortionOf(lgb_calls[i]), 1) = 0 =>
            lgb_calls[i].params.scale_pos_weight.k = "num"

---------------------------------------------------------------------------
(* Properties of run_training (specification SpecFolds)                    *)

\* The calls of lgb.train made by train_final_model.
FinalCalls == {i \in 1..Len(lgb_calls) : lgb_calls[i].by = "train_final_model"}

Abs(x) == IF x < 0 THEN -x ELSE x

\* C11: with cross-validation, the iteration count passed to the final
\* refit is the arithmetic mean of the folds' best iterations rounded to the
\* nearest integer: it is no further than one half from that mean.
C11_NearestMean ==
    do_cv =>
        \A i \in FinalCalls :
            LET b == best_iterations(cv_models)
            IN  2 * Abs(Len(b) * lgb_calls[i].num_boost_round - SeqSum(b)) <= Len(b)

\* C12: with do_cv the final model is trained on all training rows, for
\* exactly the iteration count averaged over the folds (the mean of their
\* best iterations, its fraction dropped), with no early stopping callback.
C12_RefitAveraged ==
    do_cv =>
        \A i \in FinalCalls :
            LET call == lgb_calls[i]
                b == best_iterations(cv_models)
            IN  /\ Len(b) = n_splits
                /\ call.rows = Len(y_train)
                /\ call.num_boost_round * Len(b) <= SeqSum(b)
                /\ SeqSum(b) < (call.num_boost_round + 1) * Len(b)
                /\ ~call.early_stopping
                /\ (final_model # None => final_model.v.best_iteration = 0)

\* The refit has run after folds that did not all stop at the same round.
C12_Witness ==
    /\ do_cv
    /\ pc = "trained"
    /\ final_model # None
    /\ \E i \in FinalCalls : lgb_calls[i].num_boost_round = 1
    /\ \E i, j \in 1..Len(cv_models) :
            cv_models[i].best_iteration # cv_models[j].best_iteration

\* The rows of a table are in non-increasing order of importance_mean.
Descending(t) ==
    \A i \in 1..(Len(t) - 1) :
        t[i].importance_mean.n * t[i + 1].importance_mean.d
            >= t[i + 1].importance_mean.n * t[i].importance_mean.d

\* The row of a table for a feature, when the table has exactly one.
RowsOf(t, f) == {i \in 1..Len(t) : t[i].feature = f}

\* C13: without do_cv no fold is trained; the final model is trained with
\* early stopping, for at most NUM_BOOST_ROUND rounds, the full training set
\* being its only validation set; the returned cv_scores is None; the
\* returned table has the gains of that model, importance_std 0, and is
\* sorted descending by importance_mean.
C13_NoCV ==
    ~do_cv =>
        /\ cv_models = <<>>
        /\ \A i \in 1..Len(lgb_calls) : lgb_calls[i].by = "train_final_model"
        /\ \A i \in FinalCalls :
                /\ lgb_calls[i].early_stopping
                /\ lgb_calls[i].num_boost_round = NUM_BOOST_ROUND
                /\ lgb_calls[i].rows = Len(y_train)
                /\ lgb_calls[i].valid_sets = <<"train">>
        /\ final_model # None => final_model.v.best_iteration <= NUM_BOOST_ROUND
        /\ returned # None =>
                /\ Len(lgb_calls) = 1
                /\ returned.cv_scores = None
                /\ returned.final_model = final_model
                /\ returned.feature_importance # None
                /\ LET t == returned.feature_importance.v
                   IN  /\ Len(t) = Len(X_columns)
                       /\ \A j \in 1..Len(X_columns) :
                            \E i \in 1..Len(t) :
                                /\ RowsOf(t, X_columns[j]) = {i}
                                /\ t[i].importance_mean.n
                                     = final_model.v.gain[j] * t[i].importance_mean.d
                                /\ t[i].importance_std = Zero
                       /\ Descending(t)

\* run_training has returned without do_cv, from a model whose gains are
\* not in descending order of the columns.
C13_Witness ==
    /\ ~do_cv
    /\ pc = "returned"
    /\ returned # None
    /\ final_model.v.gain[1] < final_model.v.gain[2]

\* The gains of column j over the folds, and the sum of the squared
\* distances of k times each gain from their sum (k the number of folds).
FoldGains(j) == [i \in 1..Len(cv_models) |-> cv_models[i].gain[j]]
SquaredSpread(x) ==
    SeqSum([i \in 1..Len(x) |-> (Len(x) * x[i] - SeqSum(x)) * (Len(x) * x[i] - SeqSum(x))])

\* C15: the table cross_validate returns has exactly one row per feature
\* column, holding the mean and the standard deviation (of the sample) of
\* that column's gain over all folds, in non-increasing order of the mean.
C15_ImportanceTable ==
    (do_cv /\ feature_importance # None) =>
        LET t == feature_importance.v
            k == Len(cv_models)
        IN  /\ k = n_splits
            /\ Len(t) = Len(X_columns)
            /\ \A j \in 1..Len(X_columns) :
                \E i \in 1..Len(t) :
                    /\ RowsOf(t, X_columns[j]) = {i}
                    /\ t[i].importance_mean.n * k
                         = SeqSum(FoldGains(j)) * t[i].importance_mean.d
                    /\ t[i].importance_std.k = "sqrt"
                    /\ t[i].importance_std.n * k * k * (k - 1)
                         = SquaredSpread(FoldGains(j)) * t[i].importance_std.d
            /\ Descending(t)

\* cross_validate has returned a table over folds whose gains differ, the
\* column of the larger mean being the second one.
C15_Witness ==
    /\ do_cv
    /\ feature_importance # None
    /\ pc = "train_final_model"
    /\ \E i, j \in 1..Len(cv_models) : cv_models[i].gain # cv_models[j].gain
    /\ SeqSum(FoldGains(1)) < SeqSum(FoldGains(2))

---------------------------------------------------------------------------
(* Properties of cross_validate (specification SpecTraining)               *)

\* C16: cross_validate with n_splits = k returns exactly k fold scores, one
\* per fold in fold order, each of them in [0, 1]: once the rows are split
\* and the loop over the folds has ended, nothing was raised, there are
\* n_splits scores and each is an area under the curve.
C16_FoldScores ==
    (do_cv /\ splits # <<>> /\ pc # "fold") =>
        /\ pc # "raised"
        /\ Len(cv_scores) = n_splits
        /\ \A i \in 1..Len(cv_scores) : cv_scores[i] = "auc"

---------------------------------------------------------------------------
(* Properties of find_optimal_threshold (specification SpecThreshold)      *)

\* Youden's J of the ROC point i is greater than that of point m.
GreaterJ(j, i, m) == j[i].k = "num" /\ j[m].k = "num" /\ j[i].n * j[m].d > j[m].n * j[i].d

\* No point of the curve has a greater J than point i.
MaximalJ(j, i) == \A m \in 1..Len(j) : ~GreaterJ(j, m, i)

\* (y_pred_proba >= threshold) at row i.
Predicted(i, t) == t.k = "num" /\ y_pred_proba[i].v >= t.v

\* Every positive row is scored above every negative row, and there are both.
Separated ==
    /\ \E i \in 1..Len(y_true) : y_true[i] = 1
    /\ \E i \in 1..Len(y_true) : y_true[i] = 0
    /\ \A i, m \in 1..Len(y_true) :
        (y_true[i] = 1 /\ y_true[m] = 0) => y_pred_proba[i].v > y_pred_proba[m].v

\* C14: find_optimal_threshold returns the threshold of the first ROC
\* point, in the order roc_curve yields them, at which TPR - FPR is
\* maximal; when the scores separate the classes, predicting with the
\* returned threshold finds every positive row and no negative row.
C14_YoudenThreshold ==
    optimal_threshold # None =>
        LET pts == roc_points(y_true, y_pred_proba, roc_first)
            j == j_scores(pts)
            i == optimal_idx.v
        IN  /\ i \in 1..Len(pts)
            /\ optimal_threshold = pts[i].threshold
            /\ MaximalJ(j, i)
            /\ \A m \in 1..(i - 1) : ~MaximalJ(j, m)
            /\ Separated =>
                \A r \in 1..Len(y_true) :
                    Predicted(r, optimal_threshold) <=> (y_true[r] = 1)

\* A threshold was returned for scores of three rows or more that separate
\* the classes.
C14_Witness ==
    /\ pc = "threshold_found"
    /\ optimal_threshold # None
    /\ Separated
    /\ Len(y_true) >= 3
    /\ optimal_idx.v > 1

---------------------------------------------------------------------------
(* Properties of the aggregations (specification SpecLedger)               *)

\* The bureau rows of an applicant that have a status.
WithStatus(id, status) ==
    {k \in 1..Len(data.bureau) :
        data.bureau[k].SK_ID_CURR = id /\ data.bureau[k].CREDIT_ACTIVE = status}

\* The debts of a set of bureau rows added up, a missing debt adding nothing.
DebtOver(S) ==
    SeqSum([k \in 1..Len(data.bureau) |->
                IF k \in S /\ ~IsNull(data.bureau[k].AMT_CREDIT_SUM_DEBT)
                THEN data.bureau[k].AMT_CREDIT_SUM_DEBT.v ELSE 0])

\* C17: for every applicant of the bureau ledger the aggregate has one row,
\* with BUREAU_ACTIVE_COUNT the number of the applicant's 'Active' rows,
\* BUREAU_ACTIVE_DEBT the sum of their debts and BUREAU_CLOSED_COUNT the
\* number of 'Closed' rows; where the applicant has no row of the status
\* the status's columns are NaN, not 0.
C17_StatusAggregates ==
    pc = "bureau_aggregated" =>
        \A k \in 1..Len(data.bureau) :
            LET id == data.bureau[k].SK_ID_CURR
                at == {i \in 1..aggregate.n : aggregate.data[SK_ID_CURR][i] = Num(id)}
                active == WithStatus(id, "Active")
                closed == WithStatus(id, "Closed")
            IN  /\ Cardinality(at) = 1
                /\ \A i \in at :
                    /\ aggregate.data["BUREAU_ACTIVE_COUNT"][i]
                         = IF active = {} THEN NaN ELSE Num(Cardinality(active))
                    /\ aggregate.data["BUREAU_ACTIVE_DEBT"][i]
                         = IF active = {} THEN NaN ELSE Quarter(DebtOver(active))
                    /\ aggregate.data["BUREAU_CLOSED_COUNT"][i]
                         = IF closed = {} THEN NaN ELSE Num(Cardinality(closed))

\* The bureau ledger held an active credit of debt 100 and a closed one of
\* debt 50 of one applicant, and a closed credit alone of another.
C17_Witness ==
    /\ pc = "bureau_aggregated"
    /\ Len(data.bureau) = 3
    /\ Cardinality(WithStatus(1, "Active")) = 1
    /\ Cardinality(WithStatus(1, "Closed")) = 1
    /\ DebtOver(WithStatus(1, "Active")) = Num(100).v
    /\ DebtOver(WithStatus(1, "Closed")) = Num(50).v
    /\ WithStatus(2, "Active") = {}
    /\ WithStatus(2, "Closed") # {}
    /\ \E i \in 1..aggregate.n :
        /\ aggregate.data[SK_ID_CURR][i] = Num(1)
        /\ aggregate.data["BUREAU_ACTIVE_COUNT"][i] = Num(1)
        /\ aggregate.data["BUREAU_ACTIVE_DEBT"][i] = Num(100)
        /\ aggregate.data["BUREAU_CLOSED_COUNT"][i] = Num(1)

\* A column an aggregation reads is absent from the table it is called on.
ColumnAbsent ==
    \/ pc = "aggregate_bureau_features" /\ present.bureau # RawColumns.bureau
    \/ pc = "aggregate_bureau_features"
        /\ present.bureau_balance # RawColumns.bureau_balance
    \/ pc = "aggregate_previous_applications" /\ present.prev_app # RawColumns.prev_app
    \/ pc = "aggregate_installments" /\ present.installments # RawColumns.installments

\* C18: an aggregation called on a table that lacks a raw column it reads
\* fails with a missing-column error and returns no aggregate, whole or
\* partial.
C18_MissingColumnFails ==
    [][ColumnAbsent => (pc' = "raised" /\ err' = "KeyError" /\ aggregate' = None)]_vars

\* An aggregation was called on a table without one of its columns, and has
\* ended.
C18_Witness ==
    /\ present # RawColumns
    /\ pc = "raised"
    /\ Len(data.bureau) + Len(data.prev_app) + Len(data.installments) = 1

---------------------------------------------------------------------------
(* Properties of load_feature_schema (specification SpecSchema)            *)

\* The schema load_feature_schema returned has the feature list and the
\* medians that were persisted.
SameSchema ==
    /\ pc = "schema_loaded"
    /\ loaded.features = persisted.features
    /\ "medians" \in DOMAIN loaded
    /\ loaded.medians = persisted.medians

---------------------------------------------------------------------------
(* Properties of the artifacts (specification SpecRuns)                    *)

\* C20: across the calls of run_training no artifact file written by an
\* earlier run is overwritten or modified by a later run: a step leaves
\* every file there is as it is, and no path is written by two runs.
C20_ArtifactsKept ==
    /\ \A i, j \in 1..Len(writes) :
        writes[i].path = writes[j].path => writes[i].run = writes[j].run
    /\ \A i \in 1..Len(writes) : writes[i].path \in DOMAIN files

---------------------------------------------------------------------------
(* evaluate.py: run_evaluation_pipeline; utils.py: load_production_model   *)

\* A path given as an argument or held by the registry.
Path(q) == [k |-> "path", v |-> q]

\* The content of models/model_registry.json: its production_model entry.
Registry(entry) == [k |-> "registry", v |-> entry]

\* What predict_test_set builds from a model and the processed test rows.
Submission(m) == [k |-> "submission", v |-> m]

\* The files run_preprocessing saves under Config.PROCESSED_PATH that the
\* evaluation reads.
ProcessedFiles == {"X_test.pkl", "test_ids.pkl", "X_train.pkl", "y_train.pkl"}

\* evaluate.py line 265: the names under Config.MODEL_PATH that start with
\* model_ and end with .pkl.
model_files(fs) == {q \in DOMAIN fs : q.file = "model.pkl"}

\* The first name in sorted order.
sorted_first(names) ==
    CHOOSE q \in names : \A r \in names : q.timestamp.v <= r.timestamp.v

\* evaluate.py line 268, sorted(model_files)[-1]: the names are compared as
\* strings; %Y%m%d_%H%M%S has zero-padded fields of fixed width, so the
\* order of the names is the order of their timestamps.
sorted_last(names) ==
    CHOOSE q \in names : \A r \in names : r.timestamp.v <= q.timestamp.v

\* evaluate.py lines 279-317: the try block. A FileNotFoundError of
\* load_pickle (lines 280-281) or of pd.read_csv (line 312) is caught by
\* line 316; the plots of lines 304-309 are written before line 312.
validation_plots(fs, proc, flag) ==
    IF "X_train.pkl" \notin proc \/ "y_train.pkl" \notin proc THEN {}
    ELSE IF ~flag THEN {}
    ELSE IF ImportancePath \notin DOMAIN fs
         THEN {"roc_curve.png", "pr_curve.png", "confusion_matrix.png"}
    ELSE {"roc_curve.png", "pr_curve.png", "confusion_matrix.png",
          "feature_importance.png"}

\* An operation that raised: nothing is returned.
Failed(e) == [err |-> e, model |-> None, plots |-> {}, submission |-> None]

\* evaluate.py lines 262-326.
run_evaluation_pipeline(path, flag, fs, proc) ==
    IF path = None /\ model_files(fs) = {} THEN Failed("FileNotFoundError")
    ELSE LET chosen == IF path = None THEN sorted_last(model_files(fs)) ELSE path.v
         IN  IF chosen \notin DOMAIN fs THEN Failed("FileNotFoundError")
             ELSE IF "X_test.pkl" \notin proc THEN Failed("FileNotFoundError")
             ELSE IF "test_ids.pkl" \notin proc THEN Failed("FileNotFoundError")
             ELSE [err |-> "none",
                   model |-> fs[chosen],
                   plots |-> validation_plots(fs, proc, flag),
                   submission |-> Submission(fs[chosen])]

\* utils.py lines 105-130.
load_production_model(reg, fs) ==
    IF reg = None THEN Failed("FileNotFoundError")
    ELSE IF reg.v = None THEN Failed("ValueError")
    ELSE IF reg.v.v \notin DOMAIN fs THEN Failed("FileNotFoundError")
    ELSE [err |-> "none", model |-> fs[reg.v.v], plots |-> {}, submission |-> None]

RunEvaluationPipeline ==
    /\ pc = "run_evaluation_pipeline"
    /\ LET r == run_evaluation_pipeline(model_path, save_plots, files, processed)
       IN  /\ err' = r.err
           /\ loaded_model' = r.model
           /\ plots' = r.plots
           /\ submission' = r.submission
           /\ pc' = IF r.err = "none" THEN "evaluated" ELSE "raised"
    /\ UNCHANGED <<prep_vars, y_train, training_vars, eval_vars, ledger_vars,
                   schema_vars, model_path, save_plots, processed, registry,
                   frame_vars, service_vars, engineer_vars>>

LoadProductionModel ==
    /\ pc = "load_production_model"
    /\ LET r == load_production_model(registry, files)
       IN  /\ err' = r.err
           /\ loaded_model' = r.model
           /\ pc' = IF r.err = "none" THEN "production_loaded" ELSE "raised"
    /\ UNCHANGED <<prep_vars, y_train, training_vars, eval_vars, ledger_vars,
                   schema_vars, model_path, save_plots, processed, registry, plots,
                   submission, frame_vars, service_vars, engineer_vars>>

\* The model files the directory may hold, and what they hold.
ModelPaths == {ModelPath(t) : t \in 0..MaxClock}

ModelDirs ==
    UNION {[S -> {Model(b) : b \in Boosters}] : S \in SUBSET ModelPaths}

\* The directory with and without the importance table of an earlier training.
WithImportance(fs) == {fs, WriteFile(fs, ImportancePath, Table(<<>>))}

\* Nothing of preprocessing or training is held in memory.
NothingHeld ==
    /\ data = [train |-> NoFrame, test |-> NoFrame, bureau |-> NoTable,
               prev_app |-> NoTable, installments |-> NoTable]
    /\ train_fe = NoFrame
    /\ test_fe = NoFrame
    /\ train_df = NoFrame
    /\ test_df = NoFrame
    /\ train_ids = NoColumn
    /\ test_ids = NoColumn
    /\ fills = NoFills
    /\ cow = FALSE
    /\ y_train = NoColumn
    /\ do_cv = FALSE
    /\ n_splits = 0
    /\ splits = <<>>
    /\ fold = 0
    /\ params = LGBM_PARAMS
    /\ lgb_calls = <<>>
    /\ cv_models = <<>>
    /\ cv_scores = <<>>
    /\ best_iteration = None
    /\ save_model_flag = FALSE
    /\ final_model = None
    /\ feature_importance = None
    /\ returned = None
    /\ writes = <<>>
    /\ now = 0
    /\ runs = 0
    /\ err = "none"

\* One of the two operations is called on a models directory and a processed
\* directory that hold any of the files it reads.
InitEvaluation ==
    /\ \E fs \in ModelDirs : files \in WithImportance(fs)
    /\ \/ /\ pc = "run_evaluation_pipeline"
          /\ model_path \in {None} \cup {Path(q) : q \in ModelPaths}
          /\ save_plots \in BOOLEAN
          /\ processed \in SUBSET ProcessedFiles
          /\ registry = None
       \/ /\ pc = "load_production_model"
          /\ model_path = None
          /\ save_plots = FALSE
          /\ processed = ProcessedFiles
          /\ registry \in {None, Registry(None)}
                            \cup {Registry(Path(q)) : q \in ModelPaths}
    /\ loaded_model = None
    /\ plots = {}
    /\ submission = None
    /\ NothingHeld
    /\ EvalIdle
    /\ LedgerIdle
    /\ SchemaIdle
    /\ FrameIdle
    /\ ServiceIdle
    /\ EngineerIdle

NextEvaluation ==
    \/ RunEvaluationPipeline
    \/ LoadProductionModel

SpecEvaluation == InitEvaluation /\ [][NextEvaluation]_vars

\* An artifact run_evaluation_pipeline loads is absent: the model file, a
\* processed file, or the importance table read when plots are asked for.
EvaluationArtifactAbsent ==
    \/ model_path = None /\ model_files(files) = {}
    \/ model_path # None /\ model_path.v \notin DOMAIN files
    \/ ProcessedFiles \ processed # {}
    \/ save_plots /\ ImportancePath \notin DOMAIN files

\* An artifact load_production_model loads is absent: the registry or the
\* model file it names.
ProductionArtifactAbsent ==
    \/ registry = None
    \/ registry.v # None /\ registry.v.v \notin DOMAIN files

\* C21: when an artifact file the operation loads is absent,
\* run_evaluation_pipeline and load_production_model end with an error and
\* hand back neither a submission nor a model.
C21_AbsentArtifactFails ==
    /\ EvaluationArtifactAbsent => pc # "evaluated"
    /\ ProductionArtifactAbsent => pc # "production_loaded"
    /\ pc = "raised" => submission = None /\ loaded_model = None

---------------------------------------------------------------------------
(* run_pipeline.py: run_training, then run_evaluation_pipeline             *)

\* run_pipeline.py lines 23-29: run_evaluation_pipeline(save_plots=True) is
\* called once run_training has returned; model_path is left at None.
RunPipeline ==
    /\ pc = "returned"
    /\ model_path' = None
    /\ save_plots' = TRUE
    /\ pc' = "run_evaluation_pipeline"
    /\ UNCHANGED <<prep_vars, y_train, err, training_vars, eval_vars, ledger_vars,
                   schema_vars, processed, registry, loaded_model, plots,
                   submission, frame_vars, service_vars, engineer_vars>>

\* run_pipeline after run_preprocessing (line 11; preprocess.py lines
\* 327-331: the processed
\* files are saved): run_training(do_cv=True, save_model_flag=True) on four
\* rows, two of each class, in two folds. The models directory holds the
\* model files of earlier runs, each named by the local clock of its run;
\* now is the local clock of this run.
InitRunPipeline ==
    /\ y_train = <<Num(0), Num(1), Num(0), Num(1)>>
    /\ do_cv = TRUE
    /\ n_splits = 2
    /\ save_model_flag = TRUE
    /\ splits = <<>>
    /\ fold = 0
    /\ params = LGBM_PARAMS
    /\ lgb_calls = <<>>
    /\ cv_models = <<>>
    /\ cv_scores = <<>>
    /\ best_iteration = None
    /\ final_model = None
    /\ feature_importance = None
    /\ returned = None
    /\ files \in ModelDirs
    /\ writes = <<>>
    /\ now \in 0..MaxClock
    /\ runs = 1
    /\ data = [train |-> NoFrame, test |-> NoFrame, bureau |-> NoTable,
               prev_app |-> NoTable, installments |-> NoTable]
    /\ train_fe = NoFrame
    /\ test_fe = NoFrame
    /\ train_df = NoFrame
    /\ test_df = NoFrame
    /\ train_ids = NoColumn
    /\ test_ids = NoColumn
    /\ fills = NoFills
    /\ cow = FALSE
    /\ pc = "run_training"
    /\ err = "none"
    /\ model_path = None
    /\ save_plots = FALSE
    /\ processed = ProcessedFiles
    /\ registry = None
    /\ loaded_model = None
    /\ plots = {}
    /\ submission = None
    /\ EvalIdle
    /\ LedgerIdle
    /\ SchemaIdle
    /\ FrameIdle
    /\ ServiceIdle
    /\ EngineerIdle

NextRunPipeline ==
    \/ NextTraining
    \/ RunPipeline
    \/ RunEvaluationPipeline

SpecRunPipeline == InitRunPipeline /\ [][NextRunPipeline]_vars

\* The model files this run of run_training wrote.
SavedByThisRun ==
    {writes[i].path : i \in {j \in 1..Len(writes) :
        writes[j].run = runs /\ writes[j].path.file = "model.pkl"}}

\* C25: the model run_evaluation_pipeline loads in run_pipeline is the file
\* the run_training call of the same run saved, whatever model files
\* earlier runs left in the models directory.
C25_LoadsOwnModel ==
    pc = "evaluated" =>
        /\ sorted_last(model_files(files)) \in SavedByThisRun
        /\ loaded_model = final_model

---------------------------------------------------------------------------
(* train.py: what the training functions write into their arguments        *)

\* A dict held by the caller.
Dict(d) == [k |-> "dict", v |-> d]

\* What the caller holds at the call.
Snapshot(X, y, config) == [k |-> "before", v |-> [X |-> X, y |-> y, config |-> config]]

\* The fault of no copy: params = Config.LGBM_PARAMS.
dict_shared(d) == [is |-> "Config.LGBM_PARAMS", v |-> d]

\* Lines 29-30, 84-85 and 156-157, Config.LGBM_PARAMS.copy(): a new dict
\* with the same entries.
dict_copy(d) == [is |-> "copy", v |-> d]

\* if params is None: params = Config.LGBM_PARAMS.copy(); otherwise the
\* local name denotes the dict of the caller.
bind_params(arg, config) ==
    IF arg = None THEN dict_copy(config) ELSE [is |-> "argument", v |-> arg.v]

\* params['scale_pos_weight'] = w reaches the dict the local name denotes.
WriteParams(bound, w) ==
    LET d == SetWeight(bound.v, w)
    IN  /\ params' = d
        /\ Config_LGBM_PARAMS' = IF bound.is = "Config.LGBM_PARAMS" THEN d
                                 ELSE Config_LGBM_PARAMS
        /\ params_arg' = IF bound.is = "argument" THEN Dict(d) ELSE params_arg

frame_rest == <<prep_vars, do_cv, n_splits, save_model_flag, lgb_calls, cv_models,
                cv_scores, run_vars, file_vars, eval_vars, ledger_vars, schema_vars,
                pipeline_vars, service_vars, engineer_vars, called, before>>

\* Lines 220-226: run_training passes its matrix and target on, first to
\* cross_validate when do_cv is set.
FrameRunTraining ==
    /\ pc = "frame_run_training"
    /\ pc' = IF do_cv THEN "frame_cross_validate" ELSE "frame_train_final_model"
    /\ UNCHANGED <<frame_rest, X_train, y_train, err, splits, fold, params, params_arg,
                   Config_LGBM_PARAMS, params_is>>

\* Lines 84-93: params is bound and the folds are drawn.
FrameCrossValidate ==
    /\ pc = "frame_cross_validate"
    /\ LET bound == bind_params(params_arg, Config_LGBM_PARAMS)
       IN  /\ params' = bound.v
           /\ params_is' = bound.is
    /\ IF KFoldError(y_train, n_splits)
       THEN /\ pc' = "raised"
            /\ err' = "ValueError"
            /\ UNCHANGED <<splits, fold>>
       ELSE /\ splits' \in StratifiedSplits(y_train, n_splits)
            /\ fold' = 1
            /\ pc' = "frame_fold"
            /\ err' = err
    /\ UNCHANGED <<frame_rest, X_train, y_train, params_arg, Config_LGBM_PARAMS>>

\* Lines 96-103 and 33-34: the fold's rows are taken with iloc, which gives
\* new frames, and train_lightgbm writes the fold's weight into the params
\* it was passed.
FrameFold ==
    /\ pc = "frame_fold"
    /\ LET val_idx == splits[fold]
           X_tr_fold == Take(X_train, train_idx(y_train, val_idx))
           y_tr == y_tr_fold(y_train, val_idx)
       IN  /\ Len(X_tr_fold) = Len(y_tr)
           /\ WriteParams([is |-> params_is, v |-> params], scale_pos_weight(y_tr))
    /\ IF fold < n_splits
       THEN fold' = fold + 1 /\ pc' = pc
       ELSE /\ fold' = fold
            /\ pc' = IF called = "run_training" THEN "frame_train_final_model"
                     ELSE "frame_returned"
    /\ UNCHANGED <<frame_rest, X_train, y_train, err, splits, params_is>>

\* Lines 156-161 of train_final_model; run_training (line 233) passes no
\* params.
FrameTrainFinalModel ==
    /\ pc = "frame_train_final_model"
    /\ LET bound == bind_params(IF called = "run_training" THEN None ELSE params_arg,
                                Config_LGBM_PARAMS)
       IN  /\ params_is' = bound.is
           /\ WriteParams(bound, scale_pos_weight(y_train))
    /\ pc' = "frame_returned"
    /\ UNCHANGED <<frame_rest, X_train, y_train, err, splits, fold>>

\* Lines 29-34 of train_lightgbm, called by the caller itself.
FrameTrainLightgbm ==
    /\ pc = "frame_train_lightgbm"
    /\ LET bound == bind_params(params_arg, Config_LGBM_PARAMS)
       IN  /\ params_is' = bound.is
           /\ WriteParams(bound, scale_pos_weight(y_train))
    /\ pc' = "frame_returned"
    /\ UNCHANGED <<frame_rest, X_train, y_train, err, splits, fold>>

\* The rows of the matrix and target the functions are called on.
MaxFrameRows == 4

FrameCalls ==
    {[called |-> "run_training", pc |-> "frame_run_training"],
     [called |-> "cross_validate", pc |-> "frame_cross_validate"],
     [called |-> "train_final_model", pc |-> "frame_train_final_model"],
     [called |-> "train_lightgbm", pc |-> "frame_train_lightgbm"]}

\* One of the four functions is called on a matrix of one column and a
\* target of as many rows, with or without a params dict of the caller's.
InitFrame ==
    /\ \E n \in 1..MaxFrameRows :
        /\ y_train \in [1..n -> {Num(0), Num(1)}]
        /\ X_train \in [1..n -> {Num(1), NaN}]
    /\ \E c \in FrameCalls :
        /\ called = c.called
        /\ pc = c.pc
    /\ do_cv \in (IF called = "run_training" THEN BOOLEAN ELSE {FALSE})
    /\ params_arg \in (IF called = "run_training" THEN {None}
                       ELSE {None, Dict(LGBM_PARAMS)})
    /\ n_splits = 2
    /\ Config_LGBM_PARAMS = LGBM_PARAMS
    /\ params_is = "none"
    /\ before = Snapshot(X_train, y_train, Config_LGBM_PARAMS)
    /\ splits = <<>>
    /\ fold = 0
    /\ params = LGBM_PARAMS
    /\ lgb_calls = <<>>
    /\ cv_models = <<>>
    /\ cv_scores = <<>>
    /\ best_iteration = None
    /\ save_model_flag = FALSE
    /\ final_model = None
    /\ feature_importance = None
    /\ returned = None
    /\ files = NoFiles
    /\ writes = <<>>
    /\ now = 0
    /\ runs = 0
    /\ data = [train |-> NoFrame, test |-> NoFrame, bureau |-> NoTable,
               prev_app |-> NoTable, installments |-> NoTable]
    /\ train_fe = NoFrame
    /\ test_fe = NoFrame
    /\ train_df = NoFrame
    /\ test_df = NoFrame
    /\ train_ids = NoColumn
    /\ test_ids = NoColumn
    /\ fills = NoFills
    /\ cow = FALSE
    /\ err = "none"
    /\ EvalIdle
    /\ LedgerIdle
    /\ SchemaIdle
    /\ PipelineIdle
    /\ ServiceIdle
    /\ EngineerIdle

NextFrame ==
    \/ FrameRunTraining
    \/ FrameCrossValidate
    \/ FrameFold
    \/ FrameTrainFinalModel
    \/ FrameTrainLightgbm

SpecFrame == InitFrame /\ [][NextFrame]_vars

\* C22: run_training, cross_validate, train_lightgbm and train_final_model
\* leave the feature matrix and the target they receive as they were at
\* the call, and leave Config.LGBM_PARAMS as it was when no params argument
\* is given.
C22_ArgumentsUnchanged ==
    before # None =>
        /\ X_train = before.v.X
        /\ y_train = before.v.y
        /\ params_arg = None => Config_LGBM_PARAMS = before.v.config

\* C22 happens: cross_validate, called without params, has written the
\* weight of its last fold into its params and returned.
C22_Witness ==
    /\ called \in {"run_training", "cross_validate"}
    /\ pc = "frame_returned"
    /\ fold = n_splits
    /\ params_is = "copy"
    /\ "scale_pos_weight" \in DOMAIN params
    /\ Len(X_train) = MaxFrameRows

---------------------------------------------------------------------------
(* Properties of preprocess_data: the id and target columns                *)

\* C23: neither SK_ID_CURR nor the target is a column of the train or test
\* matrix preprocess_data returns, and the id series it returns hold the
\* ids of the input rows, in input order.
C23_IdsAndTargetApart ==
    pc = "returned" =>
        /\ {SK_ID_CURR, TARGET} \cap ColSet(train_df) = {}
        /\ {SK_ID_CURR, TARGET} \cap ColSet(test_df) = {}
        /\ train_ids = data.train.data[SK_ID_CURR]
        /\ test_ids = data.test.data[SK_ID_CURR]

\* C23 happens: a call has returned feature columns for input frames of
\* which the test frame, too, came with a target column.
C23_Witness ==
    /\ pc = "returned"
    /\ HasCol(data.test, TARGET)
    /\ train_df.cols # <<>>
    /\ Len(train_ids) = MaxRows
    /\ Len(test_ids) = TestRows

---------------------------------------------------------------------------
(* utils.py: load_feature_schema across retraining runs                    *)

\* The columns a later run may finalize.
RetrainedColumns == {List(<<"f1">>), List(<<"f3", "f1">>), List(<<"f2">>)}

\* preprocess.py lines 324-331: a run of run_preprocessing whose finalized
\* training columns differ from those on disk saves them as
\* processed/X_train.pkl. Neither it nor run_training (train.py lines
\* 244-250) writes models/feature_schema.json. load_feature_schema is
\* called after the run.
SaveProcessed ==
    /\ pc = "schema_loaded"
    /\ pc' = "load_feature_schema"
    /\ runs < MaxRuns
    /\ runs' = runs + 1
    /\ x_train_pkl' \in RetrainedColumns \ {x_train_pkl}
    /\ writes' = Append(writes, [run |-> runs + 1, path |-> "X_train.pkl"])
    /\ UNCHANGED <<prep_vars, y_train, err, do_cv, n_splits, save_model_flag,
                   lgb_calls, cv_vars, run_vars, files, now, eval_vars, ledger_vars,
                   persisted, schema_json, loaded, ext_vars>>

\* load_feature_schema is called once more.
LoadAgain ==
    /\ pc = "schema_loaded"
    /\ pc' = "load_feature_schema"
    /\ UNCHANGED <<prep_vars, y_train, err, training_vars, aux_vars>>

NextSchemaRuns ==
    \/ NextSchema
    \/ SaveProcessed
    \/ LoadAgain

SpecSchemaRuns == InitSchema /\ [][NextSchemaRuns]_vars

\* C24: a persisted non-empty schema is what every later
\* load_feature_schema returns, the file left as written, until a run
\* retrains; after a run that changed the finalized training columns,
\* load_feature_schema returns the feature list of the new training frame.
C24_SchemaFollowsTraining ==
    pc = "schema_loaded" =>
        /\ (persisted # None /\ writes = <<>>) =>
                (persisted.features # <<>> =>
                    /\ loaded.features = persisted.features
                    /\ schema_json = json_dump(persisted))
        /\ writes # <<>> => loaded.features = x_train_pkl.v

---------------------------------------------------------------------------
(* app.py: the Flask service and its global model state                    *)

\* preprocess.py line 279: preprocess_data returns train_df, test_df,
\* y_train, train_ids, test_ids.
ReturnedValues == 5

\* app.py lines 241 and 360: X_train, X_test, y_train = preprocess_data(...).
UnpackedNames == 3

\* model_metadata: {} at import (line 73), the dict of lines 322-325 after
\* a load, the dict of lines 258-264 after a training.
EmptyInfo == [k |-> "empty", v |-> 0]
LoadedInfo(path) == [k |-> "loaded", v |-> path]
TrainedInfo == [k |-> "trained", v |-> 0]

\* A file that is no pickle: load_pickle raises.
Corrupt == [k |-> "corrupt", v |-> 0]

\* The models directory of the service: two model files and a file that
\* cannot be unpickled; model_2.pkl does not exist.
CorruptPath == [file |-> "notes.pkl", timestamp |-> None]
ServiceFiles ==
    [q \in {ModelPath(0), ModelPath(1), CorruptPath} |->
        IF q = ModelPath(0) THEN Model([best_iteration |-> 1, gain |-> <<1, 3>>])
        ELSE IF q = ModelPath(1) THEN Model([best_iteration |-> 2, gain |-> <<3, 1>>])
        ELSE Corrupt]

\* The columns and medians of processed/X_train.pkl (lines 706-710).
TrainingColumns == <<"f2", "f1">>
TrainingMedians == [c \in {"f1", "f2"} |-> IF c = "f1" THEN Num(1) ELSE NaN]

\* A request: the endpoint, the method, and what the body or the disk holds
\* for it.
Request(endpoint, method, arg) == [endpoint |-> endpoint, method |-> method, arg |-> arg]

NoArg == [k |-> "none", v |-> 0]
NoJson == [k |-> "nojson", v |-> 0]
DataAt(state) == [k |-> "data", v |-> state]
Features == [k |-> "features", v |-> 0]
Filepath(exists) == [k |-> "filepath", v |-> exists]
Mapping(m) == [k |-> "mapping", v |-> m]

\* The values a request names features with; zz is no training feature.
Mappings == UNION {[S -> {Num(7)}] : S \in {{}, {"f1"}, {"f2", "zz"}, {"f1", "f2"}}}

ModelRequests ==
    {Request("status", "GET", NoArg)}
        \cup {Request("load", "POST", a) :
                a \in {NoArg, NoJson, Path(ModelPath(0)), Path(ModelPath(1)),
                       Path(ModelPath(2)), Path(CorruptPath)}}
        \cup {Request("train", "POST", DataAt(s)) : s \in {"valid", "missing"}}

PredictRequests ==
    {Request("predict", "OPTIONS", NoArg), Request("predict", "POST", Features),
     Request("predict", "POST", Filepath(TRUE)), Request("predict", "POST", Filepath(FALSE)),
     Request("batch", "POST", Features), Request("batch", "POST", NoArg),
     Request("evaluate", "POST", DataAt("valid"))}
        \cup {Request("predict", "POST", Mapping(m)) : m \in Mappings}

\* The two globals a request may replace.
Globals(m, info) == [model |-> m, metadata |-> info]

IdleThread == [pc |-> "idle", request |-> Request("none", "none", NoArg),
               model_loaded |-> FALSE, before |-> Globals(None, EmptyInfo)]

\* What the model was invoked on, or None.
Input(cols, row) == [k |-> "input", v |-> [cols |-> cols, row |-> row]]

\* jsonify(...), status: the response of a handler, with the globals as
\* they are when it is sent.
Response(t, status, text, flag, info, X, after) ==
    [request |-> threads[t].request, status |-> status, text |-> text,
     model_loaded |-> flag, model_info |-> info, X_input |-> X,
     before |-> threads[t].before, after |-> after]

\* A handler that returns without writing a global.
Answer(t, status, text, X) ==
    /\ responses' = Append(responses,
            Response(t, status, text, FALSE, None, X, Globals(current_model, model_metadata)))
    /\ threads' = [threads EXCEPT ![t] = IdleThread]
    /\ UNCHANGED <<current_model, model_metadata>>

service_rest == <<prep_vars, y_train, pc, err, training_vars, eval_vars, ledger_vars,
                  schema_vars, pipeline_vars, frame_vars, engineer_vars,
                  feature_columns, feature_medians>>

\* The requests the clients send in all.
MaxRequests == 2

InFlight == Cardinality({t \in DOMAIN threads : threads[t].pc # "idle"})

Dispatch(t, req) ==
    /\ threads[t].pc = "idle"
    /\ Len(responses) + InFlight < MaxRequests
    /\ threads' = [threads EXCEPT ![t] =
            [pc |-> req.endpoint, request |-> req, model_loaded |-> FALSE,
             before |-> Globals(current_model, model_metadata)]]
    /\ UNCHANGED <<service_rest, current_model, model_metadata, responses>>

\* Flask hands a request for /api/status, /api/model/load or /api/train to
\* a thread.
ReceiveModelRequest ==
    \E t \in DOMAIN threads : \E req \in ModelRequests : Dispatch(t, req)

\* Flask hands a request for /api/predict, /api/predict/batch or
\* /api/evaluate to a thread.
ReceivePredictRequest ==
    \E t \in DOMAIN threads : \E req \in PredictRequests : Dispatch(t, req)

\* Line 96: 'model_loaded': current_model is not None.
GetStatusModel ==
    \E t \in DOMAIN threads :
        /\ threads[t].pc = "status"
        /\ threads' = [threads EXCEPT ![t].pc = "status_info",
                                      ![t].model_loaded = (current_model # None)]
        /\ UNCHANGED <<service_rest, current_model, model_metadata, responses>>

\* Lines 97-100: 'model_info': model_metadata, and the response.
GetStatusInfo ==
    \E t \in DOMAIN threads :
        /\ threads[t].pc = "status_info"
        /\ responses' = Append(responses,
                Response(t, 200, "status", threads[t].model_loaded, model_metadata,
                         None, Globals(current_model, model_metadata)))
        /\ threads' = [threads EXCEPT ![t] = IdleThread]
        /\ UNCHANGED <<service_rest, current_model, model_metadata>>

\* Lines 313-318 and 332-336: no JSON body is an exception, answered 500;
\* no model_path or a path that does not exist is answered 404.
LoadModelCheck ==
    \E t \in DOMAIN threads :
        /\ threads[t].pc = "load"
        /\ LET arg == threads[t].request.arg
           IN  IF arg.k = "nojson"
               THEN Answer(t, 500, "Failed to load model", None)
               ELSE IF arg.k = "none" \/ arg.v \notin DOMAIN files
               THEN Answer(t, 404, "Model file not found", None)
               ELSE /\ threads' = [threads EXCEPT ![t].pc = "load_pickle"]
                    /\ UNCHANGED <<current_model, model_metadata, responses>>
        /\ UNCHANGED service_rest

\* Line 320: current_model = load_pickle(model_path); a file that cannot be
\* unpickled raises before the assignment.
LoadModelPickle ==
    \E t \in DOMAIN threads :
        /\ threads[t].pc = "load_pickle"
        /\ LET content == files[threads[t].request.arg.v]
           IN  IF content = Corrupt
               THEN Answer(t, 500, "Failed to load model", None)
               ELSE /\ current_model' = content
                    /\ threads' = [threads EXCEPT ![t].pc = "load_metadata"]
                    /\ UNCHANGED <<model_metadata, responses>>
        /\ UNCHANGED service_rest

\* Lines 322-330: model_metadata = {...}, and the response.
LoadModelMetadata ==
    \E t \in DOMAIN threads :
        /\ threads[t].pc = "load_metadata"
        /\ LET info == LoadedInfo(threads[t].request.arg.v)
           IN  /\ model_metadata' = info
               /\ responses' = Append(responses,
                    Response(t, 200, "Model loaded successfully", FALSE, info, None,
                             Globals(current_model, info)))
        /\ threads' = [threads EXCEPT ![t] = IdleThread]
        /\ UNCHANGED <<service_rest, current_model>>

\* Lines 229-277: load_data raises when the data files are missing; the
\* five values preprocess_data returns are unpacked into three names, a
\* ValueError. Both are answered 500 by lines 272-277, and lines 249-270
\* (run_training, the two assignments, the 200) are not reached.
Train ==
    \E t \in DOMAIN threads :
        /\ threads[t].pc = "train"
        /\ IF threads[t].request.arg.v = "missing" \/ ReturnedValues # UnpackedNames
           THEN Answer(t, 500, "Training failed", None)
           ELSE \E b \in Boosters :
                /\ current_model' = Model(b)
                /\ model_metadata' = TrainedInfo
                /\ responses' = Append(responses,
                        Response(t, 200, "Model trained successfully", FALSE, TrainedInfo,
                                 None, Globals(Model(b), TrainedInfo)))
                /\ threads' = [threads EXCEPT ![t] = IdleThread]
        /\ UNCHANGED service_rest

\* The fault of a handler that goes on without a model.
model_check_skipped(m) == FALSE

\* Lines 347, 494 and 575: if current_model is None.
no_model_loaded(m) == m = None

\* The fault of a fill with 0 whatever the training median.
zero_fill(medians, col) == Num(0)

\* Line 528: feature_medians.get(col, 0).
median_or_zero(medians, col) == IF col \in DOMAIN medians THEN medians[col] ELSE Num(0)

\* Lines 522-530: one row over feature_columns, the request's value where
\* it names the column.
build_row(body, cols, medians) ==
    [c \in Range(cols) |-> IF c \in DOMAIN body THEN body[c] ELSE median_or_zero(medians, c)]

\* Lines 487-557.
HandlePredict ==
    \E t \in DOMAIN threads :
        /\ threads[t].pc = "predict"
        /\ LET req == threads[t].request
           IN  IF req.method = "OPTIONS" THEN Answer(t, 200, "", None)
               ELSE IF no_model_loaded(current_model)
               THEN Answer(t, 400, "No model loaded", None)
               ELSE IF req.arg.k = "features"
               THEN Answer(t, 200, "prediction", Input(<<>>, <<>>))
               ELSE IF req.arg.k = "filepath"
               THEN IF req.arg.v THEN Answer(t, 200, "predictions", Input(<<>>, <<>>))
                    ELSE Answer(t, 404, "File not found", None)
               ELSE IF feature_columns = None
               THEN Answer(t, 500, "Server missing feature metadata", None)
               ELSE Answer(t, 200, "prediction",
                           Input(feature_columns.v,
                                 build_row(req.arg.v, feature_columns.v, feature_medians)))
        /\ UNCHANGED service_rest

\* Lines 572-602.
PredictBatch ==
    \E t \in DOMAIN threads :
        /\ threads[t].pc = "batch"
        /\ IF no_model_loaded(current_model) THEN Answer(t, 400, "No model loaded", None)
           ELSE IF threads[t].request.arg.k = "none"
           THEN Answer(t, 400, "No features provided", None)
           ELSE Answer(t, 200, "predictions", Input(<<>>, <<>>))
        /\ UNCHANGED service_rest

\* Lines 344-375: with a model, the unpacking of line 360 raises as in
\* train.
Evaluate ==
    \E t \in DOMAIN threads :
        /\ threads[t].pc = "evaluate"
        /\ IF no_model_loaded(current_model) THEN Answer(t, 400, "No model loaded", None)
           ELSE IF ReturnedValues # UnpackedNames
           THEN Answer(t, 500, "Evaluation failed", None)
           ELSE Answer(t, 200, "Evaluation completed", None)
        /\ UNCHANGED service_rest

\* The service as it starts: imported by the WSGI entry point, nothing is
\* loaded (lines 72-75); run as a script, lines 686-719 load the latest
\* model file if one can be loaded, and the columns and medians of
\* processed/X_train.pkl if it exists.
InitGlobals ==
    /\ files = ServiceFiles
    /\ \/ current_model = None /\ model_metadata = EmptyInfo
       \/ \E q \in {ModelPath(0), ModelPath(1)} :
            current_model = files[q] /\ model_metadata = LoadedInfo(q)
    /\ \/ feature_columns = None /\ feature_medians = <<>>
       \/ feature_columns = List(TrainingColumns) /\ feature_medians = TrainingMedians
    /\ responses = <<>>
    /\ pc = "serving"
    /\ data = [train |-> NoFrame, test |-> NoFrame, bureau |-> NoTable,
               prev_app |-> NoTable, installments |-> NoTable]
    /\ train_fe = NoFrame
    /\ test_fe = NoFrame
    /\ train_df = NoFrame
    /\ test_df = NoFrame
    /\ train_ids = NoColumn
    /\ test_ids = NoColumn
    /\ fills = NoFills
    /\ cow = FALSE
    /\ y_train = NoColumn
    /\ do_cv = FALSE
    /\ n_splits = 0
    /\ splits = <<>>
    /\ fold = 0
    /\ params = LGBM_PARAMS
    /\ lgb_calls = <<>>
    /\ cv_models = <<>>
    /\ cv_scores = <<>>
    /\ best_iteration = None
    /\ save_model_flag = FALSE
    /\ final_model = None
    /\ feature_importance = None
    /\ returned = None
    /\ writes = <<>>
    /\ now = 0
    /\ runs = 0
    /\ err = "none"
    /\ EvalIdle
    /\ LedgerIdle
    /\ SchemaIdle
    /\ PipelineIdle
    /\ FrameIdle
    /\ EngineerIdle

\* One request is served at a time.
InitService ==
    /\ threads = [t \in 1..1 |-> IdleThread]
    /\ InitGlobals

\* The threads of the server: app.run serves each request in a thread of
\* its own.
MaxThreads == 2

InitThreaded ==
    /\ threads = [t \in 1..MaxThreads |-> IdleThread]
    /\ InitGlobals

NextModelRequests ==
    \/ ReceiveModelRequest
    \/ GetStatusModel
    \/ GetStatusInfo
    \/ LoadModelCheck
    \/ LoadModelPickle
    \/ LoadModelMetadata
    \/ Train

NextService ==
    \/ NextModelRequests
    \/ ReceivePredictRequest
    \/ HandlePredict
    \/ PredictBatch
    \/ Evaluate

SpecService == InitService /\ [][NextService]_vars

SpecThreaded == InitThreaded /\ [][NextModelRequests]_vars

---------------------------------------------------------------------------
(* Properties of the Flask service                                         *)

Sent == {responses[i] : i \in 1..Len(responses)}

\* C26: a POST /api/train on loadable, valid data answers 200 'Model
\* trained successfully' and makes the trained model the current model, so
\* that a /api/status after it reports model_loaded true.
C26_TrainInstalls ==
    \A i \in 1..Len(responses) :
        (responses[i].request.endpoint = "train" /\ responses[i].request.arg.v = "valid") =>
            /\ responses[i].status = 200
            /\ responses[i].text = "Model trained successfully"
            /\ responses[i].after.model # None
            /\ \A j \in (i + 1)..Len(responses) :
                responses[j].request.endpoint = "status" => responses[j].model_loaded

\* The requests that ask for a prediction or an evaluation.
AsksModel(r) == r.request.endpoint \in {"predict", "batch", "evaluate"}

\* A /api/model/load or /api/train request that failed left current_model
\* and model_metadata as they were when it came in.
FailedInstallKeepsGlobals ==
    \A r \in Sent :
        (r.request.endpoint \in {"load", "train"} /\ r.status # 200) => r.after = r.before

\* C27 as stated: /api/predict, /api/predict/batch and /api/evaluate answer
\* 400 'No model loaded' whenever no model is loaded, and a failed load or
\* train request leaves the two globals as they were.
C27_NoModelAnswered ==
    /\ \A r \in Sent :
        (AsksModel(r) /\ r.before.model = None) =>
            r.status = 400 /\ r.text = "No model loaded"
    /\ FailedInstallKeepsGlobals

\* C27 amended: the POST requests of the three endpoints are answered 400
\* 'No model loaded' whenever no model is loaded (an OPTIONS request to
\* /api/predict is answered 200 before the model is looked at), and a
\* failed load or train request leaves the two globals as they were.
C27_NoModelAnsweredPost ==
    /\ \A r \in Sent :
        (AsksModel(r) /\ r.request.method = "POST" /\ r.before.model = None) =>
            r.status = 400 /\ r.text = "No model loaded"
    /\ FailedInstallKeepsGlobals

\* C27 happens: with no model loaded a prediction was asked for with POST
\* and answered 400, and then a load request for a file that cannot be
\* unpickled has failed.
C27_Witness ==
    /\ Len(responses) = 2
    /\ responses[1].request = Request("predict", "POST", Mapping(<<>>))
    /\ responses[1].before.model = None
    /\ responses[1].status = 400
    /\ responses[2].request = Request("load", "POST", Path(CorruptPath))
    /\ responses[2].status = 500

\* model_metadata is the metadata of the model m.
Describes(info, m) ==
    CASE info.k = "empty" -> m = None
      [] info.k = "loaded" -> m = files[info.v]
      [] info.k = "trained" -> m # None /\ m \notin {files[q] : q \in DOMAIN files}

\* C28: with load, train and status requests served concurrently, every
\* /api/status response reports a model_info that describes the model held
\* in current_model when it is sent.
C28_StatusDescribesModel ==
    \A r \in Sent :
        r.request.endpoint = "status" => Describes(r.model_info, r.after.model)

\* C29: a /api/predict request that maps feature names to values, with a
\* model and the feature metadata loaded, gives the model one row with the
\* training columns in training order, each holding the request's value
\* when the request names it and the training median otherwise; without
\* the feature metadata it is answered with an error and the model is not
\* invoked.
C29_RowFromMapping ==
    \A r \in Sent :
        (r.request.endpoint = "predict" /\ r.request.method = "POST"
            /\ r.request.arg.k = "mapping" /\ r.before.model # None) =>
            IF feature_columns = None
            THEN r.status = 500 /\ r.X_input = None
            ELSE /\ r.X_input # None
                 /\ r.X_input.v.cols = TrainingColumns
                 /\ DOMAIN r.X_input.v.row = Range(TrainingColumns)
                 /\ \A c \in Range(TrainingColumns) :
                        r.X_input.v.row[c] =
                            IF c \in DOMAIN r.request.arg.v THEN r.request.arg.v[c]
                            ELSE TrainingMedians[c]

\* C29 happens: a request that names f2 and a name that is no feature was
\* given a row whose f1 is the training median.
C29_Witness ==
    \E r \in Sent :
        /\ r.request.arg.k = "mapping"
        /\ DOMAIN r.request.arg.v = {"f2", "zz"}
        /\ r.status = 200
        /\ r.X_input.v.row["f1"] = Num(1)
        /\ r.X_input.v.row["f2"] = Num(7)

---------------------------------------------------------------------------
(* preprocess.py: engineer_application_features                            *)

\* Line 43: the value DAYS_EMPLOYED holds for applicants with no employment.
DAYS_EMPLOYED_SENTINEL == 365243

\* Lines 40 and 44: the days of a year.
DAYS_PER_YEAR == 365

\* Line 37, df = df.copy().
frame_copy(df) == [is |-> "copy", v |-> df]

\* Series.replace(365243, np.nan) on a column of days.
replace_sentinel(col) ==
    [i \in 1..Len(col) |-> IF col[i] = Some(DAYS_EMPLOYED_SENTINEL) THEN NaN ELSE col[i]]

\* -col / 365: a missing cell stays missing.
years_of(col) ==
    [i \in 1..Len(col) |->
        IF col[i].k = "nan" THEN [k |-> "nan", n |-> 0, d |-> 0]
        ELSE TrueDivide(-col[i].v, DAYS_PER_YEAR)]

\* Series.fillna(0) on a column of quotients.
fillna_zero(col) ==
    [i \in 1..Len(col) |-> IF col[i].k = "nan" THEN TrueDivide(0, 1) ELSE col[i]]

\* Lines 37-45. df['DAYS_EMPLOYED'].replace(..., inplace=True) and
\* df['EMPLOYMENT_YEARS'].fillna(0, inplace=True) are chained inplace calls
\* on a column taken from the frame: with pandas copy-on-write they change
\* a temporary and the frame keeps its column.
engineer_application_features(df, cw) ==
    LET local == frame_copy(df)
        days == IF cw THEN local.v.DAYS_EMPLOYED
                ELSE replace_sentinel(local.v.DAYS_EMPLOYED)
        years == years_of(days)
        out == [DAYS_EMPLOYED |-> days,
                EMPLOYMENT_YEARS |-> IF cw THEN years ELSE fillna_zero(years)]
    IN  [returned |-> out,
         argument |-> IF local.is = "argument" THEN [DAYS_EMPLOYED |-> days] ELSE df]

EngineerApplicationFeatures ==
    /\ pc = "engineer_application_features"
    /\ LET r == engineer_application_features(application, cow)
       IN  /\ engineered' = [k |-> "frame", v |-> r.returned]
           /\ application' = r.argument
    /\ pc' = "engineered"
    /\ UNCHANGED <<prep_vars, y_train, err, training_vars, eval_vars, ledger_vars,
                   schema_vars, pipeline_vars, frame_vars, service_vars>>

\* The applicants of the frame, and the days a row may hold.
MaxApplicants == 3

EmployedInputs == {Some(DAYS_EMPLOYED_SENTINEL), Some(-DAYS_PER_YEAR), Some(0), NaN}

\* engineer_application_features is called on a frame of up to MaxApplicants
\* rows, under either pandas mode.
InitEngineer ==
    /\ \E n \in 1..MaxApplicants :
        \E col \in [1..n -> EmployedInputs] : application = [DAYS_EMPLOYED |-> col]
    /\ engineered = None
    /\ before = [k |-> "before", v |-> application]
    /\ cow \in BOOLEAN
    /\ pc = "engineer_application_features"
    /\ called = "none"
    /\ X_train = <<>>
    /\ params_arg = None
    /\ Config_LGBM_PARAMS = LGBM_PARAMS
    /\ params_is = "none"
    /\ data = [train |-> NoFrame, test |-> NoFrame, bureau |-> NoTable,
               prev_app |-> NoTable, installments |-> NoTable]
    /\ train_fe = NoFrame
    /\ test_fe = NoFrame
    /\ train_df = NoFrame
    /\ test_df = NoFrame
    /\ train_ids = NoColumn
    /\ test_ids = NoColumn
    /\ fills = NoFills
    /\ y_train = NoColumn
    /\ err = "none"
    /\ TrainingIdle
    /\ EvalIdle
    /\ LedgerIdle
    /\ SchemaIdle
    /\ PipelineIdle
    /\ ServiceIdle

NextEngineer == EngineerApplicationFeatures

SpecEngineer == InitEngineer /\ [][NextEngineer]_vars

============================================================================
